---------------------------- MODULE Spec2Model ----------------------------
(***************************************************************************)
(* A model of soundio-rs: the sample conversion engine (src/src/sample.rs) *)
(* and the per-callback buffer access protocol of OutStreamWriter          *)
(* (src/src/outstream.rs) and InStreamReader (src/src/instream.rs).        *)
(*                                                                         *)
(* Sample values.  A sample is a record [ty |-> type name, v |-> value].   *)
(* u8, u16, i8, i16, i32 values are integers.  u24 and i24 are the Rust    *)
(* newtypes u24(u32) and i24(i32): v is the backing integer.  A u32 does   *)
(* not fit the model checker's integers, so a u32 is kept as its two       *)
(* 16-bit halves [hi, lo] (value hi * 2^16 + lo) and every u32 operation   *)
(* of the source is carried out on the halves.                             *)
(***************************************************************************)
EXTENDS Integers, Sequences, FiniteSets, TLC

VARIABLES
    kind,       \* "out": OutStream / OutStreamWriter, "in": InStream / InStreamReader
    format,     \* (*outstream).format, fixed when the stream is opened
    cc,         \* (*outstream).layout.channel_count
    pc,         \* where the callback thread is
    cursor,     \* the OutStreamWriter / InStreamReader of the running invocation
    transport,  \* what the raw stream was asked in this invocation: whether a
                \* begin has succeeded with no end succeeding since, and the
                \* frames the latest successful begin granted
    mem,        \* the bytes of the section the channel areas point into
    last,       \* history: the latest operation on the cursor and what it did
    script,     \* position of a scripted callback body (scenario runs only)
    conv,       \* the conversion harness: an input sample and its conversions
    raw,        \* the raw harness: a buffer, the value written to it and read back
    handle,     \* a raw stream made by Device::open_outstream / open_instream
    layouts,    \* the slice given to ChannelLayout::sort
    ctx,        \* a Context and the latest device enumeration call on it
    gen         \* an invocation of the generic write callback of stream.rs

vars == <<kind, format, cc, pc, cursor, transport, mem, last, script, conv, raw,
          handle, layouts, ctx, gen>>

hostVars == <<handle, layouts, ctx, gen>>

streamVars == <<kind, format, cc, pc, cursor, transport, mem, last, script>>

---------------------------------------------------------------------------
(* Bounds of the model                                                     *)

\* inputs of the conversion harness lie within Edge of 0, of the midpoint
\* and of the maximum of each width
Edge == 2

\* conversions applied to one input in the conversion harness
MaxPath == 2

---------------------------------------------------------------------------
(* Fixed-width integer arithmetic                                          *)

Pow2(n) == 2 ^ n

\* i32::min_value(), i32::max_value()
I32Min == -2147483647 - 1

I32Max == -(I32Min + 1)

\* `x as uN` for N in {8, 16, 24}: the low N bits of x
AsUnsigned(n, x) == x % Pow2(n)

\* `x as iN` for N in {8, 16, 24}: the low N bits of x, read as two's complement
AsSigned(n, x) ==
    LET low == x % Pow2(n)
    IN  IF low >= Pow2(n - 1) THEN low - Pow2(n) ELSE low

\* a u32 from a non-negative integer below 2^31
U32(n) == [hi |-> n \div 65536, lo |-> n % 65536]

\* `x as u32` for an i32 x
I32AsU32(x) == [hi |-> (x \div 65536) % 65536, lo |-> x % 65536]

\* `u as i32` for a u32 u
U32AsI32(u) ==
    IF u.hi >= 32768 THEN (u.hi - 65536) * 65536 + u.lo
                     ELSE u.hi * 65536 + u.lo

\* u32::wrapping_add
U32WrappingAdd(a, b) ==
    LET lo == a.lo + b.lo
    IN  [hi |-> (a.hi + b.hi + lo \div 65536) % 65536, lo |-> lo % 65536]

\* `u & 0x00FFFFFF`, as a plain integer
U32Low24(u) == (u.hi % 256) * 65536 + u.lo

\* `x << k` on an i32 (k in {8, 16, 24}): the bits shifted out are lost
I32Shl(x, k) ==
    LET keep == 32 - k
        low  == x % Pow2(keep)
    IN  IF low >= Pow2(keep) \div 2 THEN (low - Pow2(keep)) * Pow2(k)
                                    ELSE low * Pow2(k)

\* `x >> k` on a signed integer: arithmetic shift
Sar(x, k) == x \div Pow2(k)

\* `x << k` on a u32 given as a plain integer below 2^24 (k in {8, 16, 24})
U32ShlInt(x, k) ==
    IF k = 8  THEN [hi |-> (x \div 256) % 65536, lo |-> (x % 256) * 256] ELSE
    IF k = 16 THEN [hi |-> x % 65536, lo |-> 0]
              ELSE [hi |-> (x % 256) * 256, lo |-> 0]

\* `u >> k` on a u32 (k in {8, 16, 24}); the result fits a plain integer
U32Shr(u, k) ==
    IF k = 8  THEN u.hi * 256 + u.lo \div 256 ELSE
    IF k = 16 THEN u.hi
              ELSE u.hi \div 256

---------------------------------------------------------------------------
(* Floating point arithmetic                                               *)

\* A finite float is m * 2^e with m odd or zero (zero is m = 0, e = 0), so
\* that equal values are equal records.  Every operation rounds its exact
\* result to the p significant bits of its type, ties to even.
Fl(m, e) == [m |-> m, e |-> e]

RECURSIVE Norm(_, _)
\* the float m * 2^e
Norm(m, e) ==
    IF m = 0 THEN Fl(0, 0)
    ELSE IF m % 2 = 0 THEN Norm(m \div 2, e + 1) ELSE Fl(m, e)

\* significant bits of f32 and f64
Precision(F) == IF F = "f32" THEN 24 ELSE 53

Abs(n) == IF n < 0 THEN -n ELSE n

RECURSIVE BitLen(_)
\* number of bits of n >= 0
BitLen(n) == IF n = 0 THEN 0 ELSE 1 + BitLen(n \div 2)

RECURSIVE Shl(_, _)
\* m * 2^k
Shl(m, k) == IF k = 0 THEN m ELSE Shl(m + m, k - 1)

\* f rounded to p significant bits, ties to even
RoundTo(p, f) ==
    LET a == Abs(f.m)
        n == BitLen(a)
        s == n - p
        q == a \div Pow2(s)
        r == a % Pow2(s)
        h == Pow2(s - 1)
        u == IF r > h \/ (r = h /\ q % 2 = 1) THEN q + 1 ELSE q
    IN  IF n <= p THEN f
        ELSE Norm(IF f.m < 0 THEN -u ELSE u, f.e + s)

\* position of the leading bit of a non-zero float
Top(a) == BitLen(Abs(a.m)) + a.e

\* a + b in precision p; an operand below a quarter of the other's last
\* place does not change it
FAdd(p, a, b) ==
    IF a.m = 0 THEN b ELSE IF b.m = 0 THEN a
    ELSE IF Top(a) - Top(b) > p + 1 THEN a
    ELSE IF Top(b) - Top(a) > p + 1 THEN b ELSE
    LET e    == IF a.e < b.e THEN a.e ELSE b.e
        ma   == Shl(a.m, a.e - e)
        mb   == Shl(b.m, b.e - e)
        half == (ma \div 2) + (mb \div 2) + (((ma % 2) + (mb % 2)) \div 2)
        odd  == ((ma % 2) + (mb % 2)) % 2
    IN  RoundTo(p, IF odd = 0 THEN Norm(half, e + 1)
                              ELSE Fl(2 * half + 1, e))

FNeg(a) == Fl(-a.m, a.e)

\* a * b in precision p
FMul(p, a, b) == RoundTo(p, Norm(a.m * b.m, a.e + b.e))

\* a / 2^k: exact
FDivPow2(a, k) == IF a.m = 0 THEN a ELSE Fl(a.m, a.e - k)

\* a < b
FLess(a, b) ==
    IF a.m <= 0 /\ b.m >= 0 THEN a.m < 0 \/ b.m > 0
    ELSE IF a.m >= 0 /\ b.m <= 0 THEN FALSE
    ELSE IF Top(a) # Top(b)
    THEN IF a.m > 0 THEN Top(a) < Top(b) ELSE Top(a) > Top(b)
    ELSE LET e == IF a.e < b.e THEN a.e ELSE b.e
         IN  Shl(a.m, a.e - e) < Shl(b.m, b.e - e)

One == Fl(1, 0)

\* `n as f32` / `n as f64` for an integer n of at most 32 bits, given as a
\* plain integer
IntAsFloat(p, n) == RoundTo(p, Norm(n, 0))

\* `u as f32` for a u32 u: below 2^24 it is exact, else u is cut to its 24
\* leading bits and rounded on the bits cut off
U32AsF32(u) ==
    IF u.hi < 32768 THEN IntAsFloat(24, u.hi * 65536 + u.lo)
    ELSE LET q == u.hi * 256 + u.lo \div 256
             r == u.lo % 256
             v == IF r > 128 \/ (r = 128 /\ q % 2 = 1) THEN q + 1 ELSE q
         IN  Norm(v, 8)

\* `x as iN` / `x as uN` for w = 8, 16, 24 and `x as i32`: the integer part
\* of a float that lies within the type's range
FloatAsInt(x) ==
    IF x.e >= 0 THEN Shl(x.m, x.e)
    ELSE IF x.m >= 0 THEN x.m \div Pow2(-x.e)
    ELSE -((-x.m) \div Pow2(-x.e))


---------------------------------------------------------------------------
(* The Sample trait, src/src/sample.rs                                     *)

UnsignedTypes == {"u8", "u16", "u24", "u32"}
SignedTypes   == {"i8", "i16", "i24", "i32"}
FloatTypes    == {"f32", "f64"}
IntTypes      == UnsignedTypes \cup SignedTypes

Width(ty) ==
    CASE ty \in {"u8", "i8"}   -> 8
      [] ty \in {"u16", "i16"} -> 16
      [] ty \in {"u24", "i24"} -> 24
      [] ty \in {"u32", "i32", "f32"} -> 32
      [] ty = "f64" -> 64

Sample(ty, v) == [ty |-> ty, v |-> v]

\* u24::min_value, u24::max_value, i24::min_value, i24::max_value
u24_min_value == 0
u24_max_value == 16777215
i24_min_value == -524288
i24_max_value == 8388607

\* $ty::min_value() and $ty::max_value() as the float macros use them
min_value(ty) ==
    CASE ty = "u8" -> 0 [] ty = "u16" -> 0 [] ty = "u24" -> u24_min_value
      [] ty = "i8" -> -128 [] ty = "i16" -> -32768 [] ty = "i24" -> i24_min_value
      [] ty = "u32" -> U32(0) [] ty = "i32" -> I32Min

max_value(ty) ==
    CASE ty = "u8" -> 255 [] ty = "u16" -> 65535 [] ty = "u24" -> u24_max_value
      [] ty = "i8" -> 127 [] ty = "i16" -> 32767 [] ty = "i24" -> i24_max_value
      [] ty = "u32" -> [hi |-> 65535, lo |-> 65535] [] ty = "i32" -> I32Max

\* impl_from_signed_methods with the offset of from_i8 copied into from_i16
impl_from_signed_methods_Offset8(ty, v) ==
    CASE ty = "i8"  -> Sample("u8",  (AsUnsigned(8, v) + 128) % 256)
      [] ty = "i16" -> Sample("u16", (AsUnsigned(16, v) + 128) % 65536)
      [] ty = "i24" -> Sample("u24",
                          U32Low24(U32WrappingAdd(I32AsU32(v), U32(8388608))))
      [] ty = "i32" -> Sample("u32",
                          U32WrappingAdd(I32AsU32(v), [hi |-> 32768, lo |-> 0]))

\* impl_from_signed_methods: the unsigned sample of the same width that
\* from_i8 / from_i16 / from_i24 / from_i32 hand to Self::from_uN
impl_from_signed_methods(ty, v) ==
    CASE ty = "i8"  -> Sample("u8",  (AsUnsigned(8, v) + 128) % 256)
      [] ty = "i16" -> Sample("u16", (AsUnsigned(16, v) + 32768) % 65536)
      [] ty = "i24" -> Sample("u24",
                          U32Low24(U32WrappingAdd(I32AsU32(v), U32(8388608))))
      [] ty = "i32" -> Sample("u32",
                          U32WrappingAdd(I32AsU32(v), [hi |-> 32768, lo |-> 0]))

\* impl_from_unsigned_methods: the signed sample of the same width that
\* from_u8 / from_u16 / from_u24 / from_u32 hand to Self::from_iN
impl_from_unsigned_methods(ty, v) ==
    CASE ty = "u8"  -> Sample("i8",  AsSigned(8, (v + 128) % 256))
      [] ty = "u16" -> Sample("i16", AsSigned(16, (v + 32768) % 65536))
      [] ty = "u24" -> Sample("i24",
                          U32AsI32(U32(U32Low24(U32WrappingAdd(U32(v), U32(8388608))))))
      [] ty = "u32" -> Sample("i32",
                          U32AsI32(U32WrappingAdd(v, [hi |-> 32768, lo |-> 0])))

\* impl Sample for u8: from_u8, from_u16, from_u24, from_u32
u8_from(ty, v) ==
    CASE ty = "u8"  -> v
      [] ty = "u16" -> AsUnsigned(8, v \div 256)
      [] ty = "u24" -> AsUnsigned(8, v \div 65536)
      [] ty = "u32" -> AsUnsigned(8, U32Shr(v, 24))

\* impl Sample for u16
u16_from(ty, v) ==
    CASE ty = "u8"  -> AsUnsigned(16, v * 256)
      [] ty = "u16" -> v
      [] ty = "u24" -> AsUnsigned(16, v \div 256)
      [] ty = "u32" -> AsUnsigned(16, U32Shr(v, 16))

\* impl Sample for u24
u24_from(ty, v) ==
    CASE ty = "u8"  -> v * 65536
      [] ty = "u16" -> v * 256
      [] ty = "u24" -> v
      [] ty = "u32" -> U32Shr(v, 8)

\* impl Sample for u32
u32_from(ty, v) ==
    CASE ty = "u8"  -> U32ShlInt(v, 24)
      [] ty = "u16" -> U32ShlInt(v, 16)
      [] ty = "u24" -> U32ShlInt(v, 8)
      [] ty = "u32" -> v

\* impl Sample for i8: from_i8, from_i16, from_i24, from_i32
i8_from(ty, v) ==
    CASE ty = "i8"  -> v
      [] ty = "i16" -> AsSigned(8, Sar(v, 8))
      [] ty = "i24" -> AsSigned(8, Sar(v, 16))
      [] ty = "i32" -> AsSigned(8, Sar(v, 24))

\* impl Sample for i16
i16_from(ty, v) ==
    CASE ty = "i8"  -> AsSigned(16, v * 256)
      [] ty = "i16" -> v
      [] ty = "i24" -> AsSigned(16, Sar(v, 8))
      [] ty = "i32" -> AsSigned(16, Sar(v, 16))

\* impl Sample for i24 with from_i8 shifting by 8 as from_i16 does
i24_from_Shift8(ty, v) ==
    CASE ty = "i8"  -> I32Shl(v, 8)
      [] ty = "i16" -> I32Shl(v, 8)
      [] ty = "i24" -> v
      [] ty = "i32" -> Sar(v, 8)

\* impl Sample for i24
i24_from(ty, v) ==
    CASE ty = "i8"  -> I32Shl(v, 16)
      [] ty = "i16" -> I32Shl(v, 8)
      [] ty = "i24" -> v
      [] ty = "i32" -> Sar(v, 8)

\* impl Sample for i32
i32_from(ty, v) ==
    CASE ty = "i8"  -> I32Shl(v, 24)
      [] ty = "i16" -> I32Shl(v, 16)
      [] ty = "i24" -> I32Shl(v, 8)
      [] ty = "i32" -> v

RECURSIVE Log2(_)
\* the k with den = 2^k
Log2(den) == IF den <= 1 THEN 0 ELSE 1 + Log2(den \div 2)

\* the float num / den, den a power of two
Float(num, den) == Norm(num, -Log2(den))

\* `$ty::min_value() as f32` / `as f64`
MinAsFloat(ty, p) == IF ty = "u32" THEN Fl(0, 0) ELSE IntAsFloat(p, min_value(ty))

\* `$ty::max_value() as f32` / `as f64`; u32::max_value() as f64, an odd
\* number of 32 bits, is only used through MaxPlusOne and AboveMax
MaxAsFloat(ty, p) ==
    IF ty = "u32" THEN U32AsF32(max_value(ty)) ELSE IntAsFloat(p, max_value(ty))

\* `($ty::max_value() as f32) + 1.0`; 4294967295.0 + 1.0 is 2^32 in f64
MaxPlusOne(ty, p) ==
    IF ty = "u32" /\ p > 32 THEN Fl(1, 32) ELSE FAdd(p, MaxAsFloat(ty, p), One)

\* `x > $ty::max_value() as f32`; x > 4294967295.0 in f64 is x - 2^32 > -1
AboveMax(ty, p, x) ==
    IF ty = "u32" /\ p > 32 THEN FLess(FNeg(One), FAdd(p, x, Fl(-1, 32)))
    ELSE FLess(MaxAsFloat(ty, p), x)

\* `x as u32` for a float x >= 0: the integer part, saturated at u32::MAX
FloatAsU32(x) ==
    IF ~FLess(x, Fl(1, 32)) THEN [hi |-> 65535, lo |-> 65535]
    ELSE IF x.e >= 16 THEN [hi |-> Shl(x.m, x.e - 16), lo |-> 0]
    ELSE IF x.e >= 0
    THEN [hi |-> x.m \div Pow2(16 - x.e),
          lo |-> Shl(x.m % Pow2(16 - x.e), x.e)]
    ELSE U32(x.m \div Pow2(-x.e))

\* `x as _` in from_f32 / from_f64: the integer part, saturated at the ends
\* of the target's range
FloatCast(ty, x) ==
    IF ty = "u32" THEN FloatAsU32(x)
    ELSE IF ty = "i32" /\ ~FLess(x, Fl(1, 31)) THEN I32Max
    ELSE FloatAsInt(x)

\* impl_float_methods and impl_float_methods_24: from_f32 / from_f64 of the
\* integer type ty for a value v of the float type F,
\*   x = 0.5 * ((v + 1.0) * (max as F + 1.0) + (1.0 - v) * (min as F))
impl_float_methods(ty, F, v) ==
    LET p  == Precision(F)
        t1 == FMul(p, FAdd(p, v, One), MaxPlusOne(ty, p))
        t2 == FMul(p, FAdd(p, One, FNeg(v)), MinAsFloat(ty, p))
        x  == FMul(p, Fl(1, -1), FAdd(p, t1, t2))
    IN  IF FLess(x, MinAsFloat(ty, p)) THEN min_value(ty)
        ELSE IF AboveMax(ty, p, x) THEN max_value(ty)
        ELSE FloatCast(ty, x)

\* impl_float_from_methods with the - 1.0 left out of from_u8, from_u16 and
\* from_u24
impl_float_from_methods_NoOffset(F, s) ==
    LET p == Precision(F)
        k == Width(s.ty) - 1
    IN  IF s.ty \in FloatTypes THEN RoundTo(p, s.v)
        ELSE IF s.ty = "u32"
        THEN IF p > 32
             THEN Norm(U32AsI32(U32WrappingAdd(s.v, [hi |-> 32768, lo |-> 0])), -31)
             ELSE FAdd(p, FDivPow2(U32AsF32(s.v), 31), FNeg(One))
        ELSE FDivPow2(IntAsFloat(p, s.v), k)

\* impl_float_from_methods: F::from_<s.ty>(s.v) for a float type F.
\* Unsigned (v as F) / 2^(w-1) - 1.0, signed (v as F) / 2^(w-1), floats
\* `v as F`.  In f64 the three steps of from_u32 are exact and give
\* (v - 2^31) / 2^31.
impl_float_from_methods(F, s) ==
    LET p == Precision(F)
        k == Width(s.ty) - 1
    IN  IF s.ty \in FloatTypes THEN RoundTo(p, s.v)
        ELSE IF s.ty = "u32"
        THEN IF p > 32
             THEN Norm(U32AsI32(U32WrappingAdd(s.v, [hi |-> 32768, lo |-> 0])), -31)
             ELSE FAdd(p, FDivPow2(U32AsF32(s.v), 31), FNeg(One))
        ELSE IF s.ty \in UnsignedTypes
        THEN FAdd(p, FDivPow2(IntAsFloat(p, s.v), k), FNeg(One))
        ELSE FDivPow2(IntAsFloat(p, s.v), k)

\* T::from_<s.ty>(s.v) for an integer type T: the direct methods of T's impl
\* for the sources of T's signedness, impl_from_signed_methods or
\* impl_from_unsigned_methods for the other signedness, the float macros for
\* float sources
from_same(to, ty, v) ==
    CASE to = "u8"  -> u8_from(ty, v)
      [] to = "u16" -> u16_from(ty, v)
      [] to = "u24" -> u24_from(ty, v)
      [] to = "u32" -> u32_from(ty, v)
      [] to = "i8"  -> i8_from(ty, v)
      [] to = "i16" -> i16_from(ty, v)
      [] to = "i24" -> i24_from(ty, v)
      [] to = "i32" -> i32_from(ty, v)

\* impl_to_methods: to_<to>(s) is <to>::from_<s.ty>(s.v)
impl_to_methods(to, s) ==
    IF to \in FloatTypes
    THEN Sample(to, impl_float_from_methods(to, s))
    ELSE IF s.ty \in FloatTypes
    THEN Sample(to, impl_float_methods(to, s.ty, s.v))
    ELSE IF to \in UnsignedTypes
    THEN LET u == IF s.ty \in UnsignedTypes THEN s
                  ELSE impl_from_signed_methods(s.ty, s.v)
         IN  Sample(to, from_same(to, u.ty, u.v))
    ELSE LET i == IF s.ty \in SignedTypes THEN s
                  ELSE impl_from_unsigned_methods(s.ty, s.v)
         IN  Sample(to, from_same(to, i.ty, i.v))


---------------------------------------------------------------------------
(* Raw byte encodings, src/src/sample.rs                                   *)

\* the four bytes of a u32, least significant first
U32Bytes(u) == << u.lo % 256, u.lo \div 256, u.hi % 256, u.hi \div 256 >>

\* the u32 whose bytes, least significant first, are b[1..4]
BytesU32(b) == [hi |-> b[3] + 256 * b[4], lo |-> b[1] + 256 * b[2]]

\* the bytes of a sample's in-memory value, least significant first. The raw
\* methods handle a float as the unsigned integer of its bits
\* (std::mem::transmute): an f32 is the u32 of its bits, an f64 the pair
\* [hi, lo] of the u32 halves of its bits.
LeBytes(ty, v) ==
    CASE ty \in {"u8", "i8"} -> << AsUnsigned(8, v) >>
      [] ty \in {"u16", "i16"} ->
            LET u == AsUnsigned(16, v) IN << u % 256, u \div 256 >>
      [] ty \in {"u32", "i32"} ->
            U32Bytes(IF ty = "u32" THEN v ELSE I32AsU32(v))
      [] ty = "f32" -> U32Bytes(v)
      [] ty = "f64" -> U32Bytes(v.lo) \o U32Bytes(v.hi)

Reverse(s) == [i \in 1..Len(s) |-> s[Len(s) + 1 - i]]

\* impl_raw_methods::to_raw_le / impl_raw_methods_24::to_raw_le:
\* the bytes stored at ptr, ptr+1, ...
to_raw_le(ty, v) ==
    IF ty \in {"u24", "i24"}
    THEN << v % 256, (v \div 256) % 256, (v \div 65536) % 256 >>
    ELSE LeBytes(ty, v)

\* impl_raw_methods::to_raw_be / impl_raw_methods_24::to_raw_be /
\* impl_float_raw_methods::to_raw_be (which stores $uint_ty::to_le of the bits)
to_raw_be(ty, v) ==
    CASE ty \in {"u24", "i24"} ->
            << (v \div 65536) % 256, (v \div 256) % 256, v % 256 >>
      [] ty \in FloatTypes -> LeBytes(ty, v)
      [] OTHER -> Reverse(LeBytes(ty, v))

\* the sample whose in-memory bytes, least significant first, are b
FromLeBytes(ty, b) ==
    CASE ty = "u8"  -> b[1]
      [] ty = "i8"  -> AsSigned(8, b[1])
      [] ty = "u16" -> b[1] + 256 * b[2]
      [] ty = "i16" -> AsSigned(16, b[1] + 256 * b[2])
      [] ty = "u32" -> BytesU32(b)
      [] ty = "i32" -> U32AsI32(BytesU32(b))
      [] ty = "f32" -> BytesU32(b)
      [] ty = "f64" -> [hi |-> BytesU32(SubSeq(b, 5, 8)), lo |-> BytesU32(SubSeq(b, 1, 4))]

\* the bytes of storage of a sample of type ty
StorageBytes(ty) == IF ty \in {"u24", "i24"} THEN 3 ELSE Width(ty) \div 8

\* from_raw_le with the i24 read shifted right as an unsigned integer
from_raw_le_Unsigned(ty, w) ==
    CASE ty \in {"u24", "i24"} -> w[1] + 256 * w[2] + 65536 * w[3]
      [] OTHER      -> FromLeBytes(ty, SubSeq(w, 1, StorageBytes(ty)))

\* impl_raw_methods::from_raw_le / impl_raw_methods_24::from_raw_le /
\* impl_float_raw_methods::from_raw_le.
\* w is the window of bytes at ptr: w[1] is the byte at ptr, w[2] at ptr+1, ...
from_raw_le(ty, w) ==
    CASE ty = "u24" -> w[1] + 256 * w[2] + 65536 * w[3]
      [] ty = "i24" -> AsSigned(24, w[1] + 256 * w[2] + 65536 * w[3])
      [] OTHER      -> FromLeBytes(ty, SubSeq(w, 1, StorageBytes(ty)))

\* impl_raw_methods::from_raw_be / impl_raw_methods_24::from_raw_be
\* (the 24-bit variant reads the u32 at ptr.offset(3)) /
\* impl_float_raw_methods::from_raw_be
from_raw_be(ty, w) ==
    CASE ty = "u24" -> w[4] + 256 * w[5] + 65536 * w[6]
      [] ty = "i24" -> AsSigned(24, w[4] + 256 * w[5] + 65536 * w[6])
      [] OTHER      -> FromLeBytes(ty, Reverse(SubSeq(w, 1, StorageBytes(ty))))

\* bytes a raw read may look at, counted from ptr
RawWindow == 7

\* the length of the buffer of the raw harness
RawLen == 8

\* what the buffer holds before the write
Backgrounds == {0, 160}

---------------------------------------------------------------------------
(* Stream formats                                                          *)

IntFormats == {"S8", "U8", "S16LE", "S16BE", "U16LE", "U16BE",
               "S24LE", "S24BE", "U24LE", "U24BE",
               "S32LE", "S32BE", "U32LE", "U32BE"}

\* the match of set_sample / sample with the arms of S8 and U8 exchanged
FormatType_Swapped8(fmt) ==
    CASE fmt = "S8" -> "u8" [] fmt = "U8" -> "i8"
      [] fmt \in {"S16LE", "S16BE"} -> "i16" [] fmt \in {"U16LE", "U16BE"} -> "u16"
      [] fmt \in {"S24LE", "S24BE"} -> "i24" [] fmt \in {"U24LE", "U24BE"} -> "u24"
      [] fmt \in {"S32LE", "S32BE"} -> "i32" [] fmt \in {"U32LE", "U32BE"} -> "u32"

\* the sample type each arm of the match in set_sample / sample converts to
\* or from
FormatType(fmt) ==
    CASE fmt = "S8" -> "i8" [] fmt = "U8" -> "u8"
      [] fmt \in {"S16LE", "S16BE"} -> "i16" [] fmt \in {"U16LE", "U16BE"} -> "u16"
      [] fmt \in {"S24LE", "S24BE"} -> "i24" [] fmt \in {"U24LE", "U24BE"} -> "u24"
      [] fmt \in {"S32LE", "S32BE"} -> "i32" [] fmt \in {"U32LE", "U32BE"} -> "u32"

\* whether the arm of the match uses the _be raw method
FormatIsBE(fmt) ==
    fmt \in {"S16BE", "U16BE", "S24BE", "U24BE", "S32BE", "U32BE"}

\* soundio_get_bytes_per_sample: 24-bit formats occupy a 32-bit word
BytesPerSample(fmt) ==
    CASE fmt \in {"S8", "U8"} -> 1
      [] fmt \in {"S16LE", "S16BE", "U16LE", "U16BE"} -> 2
      [] OTHER -> 4


---------------------------------------------------------------------------
(* The stream, its transport and the cursor                                *)

\* frames of the largest callback window the transport passes
MaxFrames == 2

\* channel counts of the streams that are opened
ChannelCounts == {1, 2}

\* formats of the streams that are opened
OpenFormats == {"S8", "U16BE", "S24LE"}

\* the largest usize, standing for 2^64 - 1
UsizeMax == 2147483647

\* `x as usize` for a c_int x: a negative x wraps to the top of the range
CIntAsUsize(x) == IF x >= 0 THEN x ELSE UsizeMax + (1 + x)

\* SoundIoError codes that begin_write / begin_read may return
BeginErrors == {"Streaming", "Underflow"}

\* SoundIoError codes that end_write / end_read may return
EndErrors == {"Streaming", "Underflow"}

\* what the transport puts in a section it hands out
Fills == {85}

\* the frame counts the transport may grant for a request
Grants(req) == 0..req

\* what soundio_outstream_begin_write / soundio_instream_begin_read may
\* answer to a request of req frames: an error code, or 0 with the actual
\* frame count and the section
BeginResponses(req) ==
    [code : {"None"}, actual : Grants(req), fill : Fills]
        \cup [code : BeginErrors, actual : {req}, fill : {0}]

\* what soundio_outstream_end_write / soundio_instream_end_read may answer
EndResponses == {"None"} \cup EndErrors

\* the channel areas of a section: interleaved frames, channel c at
\* c * bytes_per_sample, stepping by bytes_per_frame
Areas == [c \in 1..cc |-> [ptr  |-> (c - 1) * BytesPerSample(format),
                           step |-> cc * BytesPerSample(format)]]

\* the bytes of a section of n frames: the byte at offset a holds fill + a
Section(n, fill) ==
    [a \in 0..(n * cc * BytesPerSample(format) - 1) |-> (fill + a) % 256]

EmptyMem == Section(0, 0)

\* the cursor of an invocation built with frame_count already at the maximum
NewCursor_Prefilled(frame_count_min, frame_count_max) ==
    [frame_count_min |-> CIntAsUsize(frame_count_min),
     frame_count_max |-> CIntAsUsize(frame_count_max),
     started         |-> FALSE,
     channel_areas   |-> << >>,
     frame_count     |-> CIntAsUsize(frame_count_max)]

\* outstream_write_callback / instream_read_callback: the cursor built for
\* an invocation
NewCursor(frame_count_min, frame_count_max) ==
    [frame_count_min |-> CIntAsUsize(frame_count_min),
     frame_count_max |-> CIntAsUsize(frame_count_max),
     started         |-> FALSE,     \* write_started / read_started
     channel_areas   |-> << >>,
     frame_count     |-> 0]

NoSample == Sample("none", 0)

\* the record of an operation on the cursor
Did(op, n, ch, s, outcome, ret, calls, touched, printed) ==
    [op |-> op, n |-> n, ch |-> ch, sample |-> s, before |-> cursor,
     acq |-> transport.acquired,
     outcome |-> outcome, ret |-> ret, calls |-> calls,
     touched |-> touched, printed |-> printed]

\* the assert of begin with a strict lower comparison
FrameCountInRange_Strict(frame_count) ==
    frame_count > cursor.frame_count_min /\ frame_count <= cursor.frame_count_max

\* the assert of begin_write / begin_read
FrameCountInRange(frame_count) ==
    frame_count >= cursor.frame_count_min /\ frame_count <= cursor.frame_count_max

\* a begin that marks the section as started whatever the transport answered
AfterBegin_Always(r) ==
    [cursor EXCEPT !.started = TRUE, !.frame_count = CIntAsUsize(r.actual)]

\* the cursor after a begin the transport answered with r
AfterBegin(r) ==
    IF r.code # "None" THEN cursor
    ELSE IF r.actual <= 0
    THEN [cursor EXCEPT !.started = TRUE,
                        !.frame_count = CIntAsUsize(r.actual)]
    ELSE [cursor EXCEPT !.started = TRUE,
                        !.frame_count = CIntAsUsize(r.actual),
                        !.channel_areas = Areas]

\* what begin_write / begin_read returns: Ok(n) is n, Err is -1
BeginReturn(r) ==
    IF r.code # "None" THEN -1
    ELSE IF r.actual <= 0 THEN 0 ELSE CIntAsUsize(r.actual)

\* OutStreamWriter::begin_write / InStreamReader::begin_read
Begin(frame_count, r) ==
    /\ pc = "callback"
    /\ IF ~FrameCountInRange(frame_count)
       THEN /\ pc' = "panicked"
            /\ last' = Did("begin", frame_count, 0, NoSample, "panic", -1,
                           << >>, {}, "none")
            /\ UNCHANGED <<cursor, transport, mem>>
       ELSE /\ cursor' = AfterBegin(r)
            /\ transport' = IF r.code = "None"
                            THEN [acquired |-> TRUE, granted |-> r.actual]
                            ELSE transport
            /\ mem' = IF r.code = "None" /\ r.actual > 0
                      THEN Section(r.actual, r.fill) ELSE mem
            /\ last' = Did("begin", frame_count, 0, NoSample,
                           IF r.code = "None" THEN "ok" ELSE "err",
                           BeginReturn(r), << "begin" >>, {},
                           "none")
            /\ pc' = pc
    /\ UNCHANGED <<kind, format, cc>>

\* end_write / end_read without their guard
EndGuard_Always == TRUE

\* the guard of end_write / end_read
EndGuard == cursor.started

\* a Drop that never commits
DropGuard_Never == FALSE

\* the guard of Drop::drop
DropGuard == cursor.started

\* the raw stream after its end_write / end_read answered code
Ended(code) ==
    IF code = "None" THEN [transport EXCEPT !.acquired = FALSE] ELSE transport

\* the raw stream between two invocations
Quiet == [acquired |-> FALSE, granted |-> 0]

\* the cursor after end_write / end_read whose transport call answered code
AfterEnd(code) ==
    IF code = "None" THEN [cursor EXCEPT !.started = FALSE] ELSE cursor

\* OutStreamWriter::end_write / InStreamReader::end_read
End(code) ==
    /\ pc = "callback"
    /\ IF EndGuard
       THEN /\ cursor' = AfterEnd(code)
            /\ transport' = Ended(code)
            /\ mem' = IF code = "None" THEN EmptyMem ELSE mem
            /\ last' = Did("end", 0, 0, NoSample, "ok", -1, << "end" >>, {},
                           IF code = "None" THEN "none" ELSE code)
       ELSE /\ last' = Did("end", 0, 0, NoSample, "ok", -1, << >>, {}, "none")
            /\ UNCHANGED <<cursor, transport, mem>>
    /\ UNCHANGED <<kind, format, cc, pc>>

\* OutStreamWriter::frame_count / InStreamReader::frame_count
FrameCount ==
    /\ pc = "callback"
    /\ IF cursor.started
       THEN /\ last' = Did("frame_count", 0, 0, NoSample, "ok",
                           cursor.frame_count, << >>, {}, "none")
            /\ pc' = pc
       ELSE /\ last' = Did("frame_count", 0, 0, NoSample, "panic", -1,
                           << >>, {}, "none")
            /\ pc' = "panicked"
    /\ UNCHANGED <<kind, format, cc, cursor, transport, mem>>

\* the asserts of set_sample / sample with the frame compared by <=
AccessAllowed_Inclusive(channel, frame) ==
    /\ cursor.started
    /\ channel < cc
    /\ frame <= cursor.frame_count
    /\ channel < Len(cursor.channel_areas)

\* the three asserts of set_sample / sample and the bounds check of the
\* index into channel_areas
AccessAllowed(channel, frame) ==
    /\ cursor.started
    /\ channel < cc
    /\ frame < cursor.frame_count
    /\ channel < Len(cursor.channel_areas)

\* the address of (channel, frame) computed without the area's base pointer
SampleAddress_NoBase(channel, frame) ==
    frame * cursor.channel_areas[channel + 1].step

\* the address set_sample / sample computes for (channel, frame)
SampleAddress(channel, frame) ==
    cursor.channel_areas[channel + 1].ptr
        + frame * cursor.channel_areas[channel + 1].step

\* the bytes the match in set_sample stores at the sample's address
WireBytes(s) ==
    LET w == impl_to_methods(FormatType(format), s)
    IN  IF FormatIsBE(format) THEN to_raw_be(w.ty, w.v) ELSE to_raw_le(w.ty, w.v)

\* OutStreamWriter::set_sample
set_sample(channel, frame, s) ==
    /\ pc = "callback" /\ kind = "out"
    /\ IF AccessAllowed(channel, frame)
       THEN LET at == SampleAddress(channel, frame)
                b  == WireBytes(s)
                to == {at + i - 1 : i \in 1..Len(b)}
            IN  /\ mem' = [a \in DOMAIN mem |->
                             IF a \in to THEN b[a - at + 1] ELSE mem[a]]
                /\ last' = Did("set_sample", frame, channel, s, "ok", -1,
                               << >>, to, "none")
                /\ pc' = pc
       ELSE /\ last' = Did("set_sample", frame, channel, s, "panic", -1,
                           << >>, {}, "none")
            /\ pc' = "panicked"
            /\ mem' = mem
    /\ UNCHANGED <<kind, format, cc, cursor, transport>>

\* the value the match in sample returns for the bytes w found at the address
ReadSample(ty, w) ==
    LET t == FormatType(format)
        v == IF FormatIsBE(format) THEN from_raw_be(t, w) ELSE from_raw_le(t, w)
    IN  impl_to_methods(ty, Sample(t, v))

\* the bytes a raw read looks at: bytes past the section are not the
\* section's, whatever they hold is garbage
Window(at, garbage) ==
    [i \in 1..RawWindow |->
        IF at + i - 1 \in DOMAIN mem THEN mem[at + i - 1] ELSE garbage]

\* the addresses the raw read of the stream's format looks at
ReadFootprint(at) ==
    IF FormatType(format) \in {"u24", "i24"}
    THEN IF FormatIsBE(format) THEN (at + 3)..(at + 6) ELSE at..(at + 3)
    ELSE at..(at + BytesPerSample(format) - 1)

\* InStreamReader::sample
sample(channel, frame, ty, garbage) ==
    /\ pc = "callback" /\ kind = "in"
    /\ IF AccessAllowed(channel, frame)
       THEN LET at == SampleAddress(channel, frame)
            IN  /\ last' = Did("sample", frame, channel,
                               ReadSample(ty, Window(at, garbage)), "ok", -1,
                               << >>, ReadFootprint(at), "none")
                /\ pc' = pc
       ELSE /\ last' = Did("sample", frame, channel, NoSample, "panic", -1,
                           << >>, {}, "none")
            /\ pc' = "panicked"
    /\ UNCHANGED <<kind, format, cc, cursor, transport, mem>>

\* the cursor of an invocation that is over
NoCursor == NewCursor(0, 0)

\* impl Drop for OutStreamWriter / InStreamReader, run when the callback
\* returns
Drop(code) ==
    /\ pc = "callback"
    /\ IF DropGuard
       THEN last' = Did("drop", 0, 0, NoSample, "ok", -1, << "end" >>, {},
                        IF code = "None" THEN "none" ELSE code)
       ELSE last' = Did("drop", 0, 0, NoSample, "ok", -1, << >>, {}, "none")
    /\ transport' = Quiet
    /\ cursor' = NoCursor
    /\ mem' = EmptyMem
    /\ pc' = "outside"
    /\ UNCHANGED <<kind, format, cc>>

\* A panic leaves the callback: unwinding out of an extern fn is not defined,
\* the cursor's Drop may run (Unwind) or not (Abort) before the thread is gone.
Unwind(code) ==
    /\ pc = "panicked"
    /\ IF DropGuard
       THEN last' = Did("unwind", 0, 0, NoSample, "ok", -1, << "end" >>, {},
                        IF code = "None" THEN "none" ELSE code)
       ELSE last' = Did("unwind", 0, 0, NoSample, "ok", -1, << >>, {}, "none")
    /\ transport' = Quiet
    /\ cursor' = NoCursor
    /\ mem' = EmptyMem
    /\ pc' = "aborted"
    /\ UNCHANGED <<kind, format, cc>>

Abort ==
    /\ pc = "panicked"
    /\ last' = Did("abort", 0, 0, NoSample, "ok", -1, << >>, {}, "none")
    /\ cursor' = NoCursor
    /\ mem' = EmptyMem
    /\ pc' = "aborted"
    /\ transport' = Quiet
    /\ UNCHANGED <<kind, format, cc>>

\* the (frame_count_min, frame_count_max) pairs the transport passes
Windows == {w \in (0..MaxFrames) \X (0..MaxFrames) : w[1] <= w[2]}

\* outstream_write_callback / instream_read_callback, up to the call of the
\* user's callback.  The history keeps the window the transport passed:
\* frame_count_max as n, frame_count_min as ch.
Callback(frame_count_min, frame_count_max) ==
    /\ pc = "outside"
    /\ cursor' = NewCursor(frame_count_min, frame_count_max)
    /\ last' = Did("callback", frame_count_max, frame_count_min, NoSample, "ok",
                   -1, << >>, {}, "none")
    /\ pc' = "callback"
    /\ transport' = Quiet
    /\ UNCHANGED <<kind, format, cc, mem>>

outstream_write_callback(frame_count_min, frame_count_max) ==
    kind = "out" /\ Callback(frame_count_min, frame_count_max)

instream_read_callback(frame_count_min, frame_count_max) ==
    kind = "in" /\ Callback(frame_count_min, frame_count_max)

begin_write(frame_count, r) == kind = "out" /\ Begin(frame_count, r)

begin_read(frame_count, r) == kind = "in" /\ Begin(frame_count, r)

end_write(code) == kind = "out" /\ End(code)

end_read(code) == kind = "in" /\ End(code)

---------------------------------------------------------------------------
(* The conversion harness                                                  *)

\* the types the harness converts between
ConvTypes == IntTypes \cup FloatTypes

\* unsigned inputs of width n (8, 16, 24): near 0, the midpoint, the maximum
NearU(n) ==
    (0..Edge) \cup ((Pow2(n - 1) - Edge)..(Pow2(n - 1) + Edge))
              \cup ((Pow2(n) - 1 - Edge)..(Pow2(n) - 1))

\* signed inputs of width n (8, 16, 24): near the minimum, 0, the maximum
NearI(n) ==
    ((-Pow2(n - 1))..(-Pow2(n - 1) + Edge)) \cup ((-Edge)..Edge)
              \cup ((Pow2(n - 1) - 1 - Edge)..(Pow2(n - 1) - 1))

NearU32 ==
    {U32(k) : k \in 0..Edge}
      \cup {[hi |-> 32767, lo |-> 65535 - k] : k \in 0..(Edge - 1)}
      \cup {[hi |-> 32768, lo |-> k] : k \in 0..Edge}
      \cup {[hi |-> 65535, lo |-> 65535 - k] : k \in 0..Edge}

NearI32 ==
    {I32Min + k : k \in 0..Edge} \cup ((-Edge)..Edge)
      \cup {I32Max - k : k \in 0..Edge}

\* the input half way between the midpoint and the maximum of each type
Quarter(ty) ==
    CASE ty = "u8" -> 192 [] ty = "i8" -> 64 [] ty = "u16" -> 49152
      [] ty = "i16" -> 16384 [] ty = "u24" -> 12582912 [] ty = "i24" -> 4194304
      [] ty = "u32" -> [hi |-> 49152, lo |-> 0] [] ty = "i32" -> 1073741824

\* float inputs: the halves from -(2 + Edge)/2 to (2 + Edge)/2, and +-10
FloatInputs ==
    {Float(n, 2) : n \in (-(2 + Edge))..(2 + Edge)} \cup {Float(-10, 1), Float(10, 1)}

\* the input values of each type
Inputs(ty) ==
    CASE ty \in {"u8", "u16", "u24"} -> NearU(Width(ty)) \cup {Quarter(ty)}
      [] ty \in {"i8", "i16", "i24"} -> NearI(Width(ty)) \cup {Quarter(ty)}
      [] ty = "u32" -> NearU32 \cup {Quarter(ty)}
      [] ty = "i32" -> NearI32 \cup {Quarter(ty)}
      [] ty \in FloatTypes -> FloatInputs

ConvIdle == [orig |-> NoSample, cur |-> NoSample, path |-> << >>]

\* Floats are converted to integers when they have at most 24 fractional bits.
\* Sample::to_u8 ... Sample::to_f64 applied to the current value
Convert(to) ==
    /\ Len(conv.path) >= 1
    /\ Len(conv.path) <= MaxPath
    /\ (conv.cur.ty \in FloatTypes /\ to \in IntTypes) => conv.cur.v.e >= -24
    /\ conv' = [conv EXCEPT !.cur = impl_to_methods(to, conv.cur),
                            !.path = Append(conv.path, to)]

\* The raw harness follows tests::raw_lossless: a buffer, ptr at its first
\* byte, one value written with to_raw_le or to_raw_be and read back with
\* from_raw_le or from_raw_be.

\* bit patterns of f32 values: 0.0, 1.0, -1.0, 0.5, the least subnormal, a NaN
F32Patterns ==
    {[hi |-> 0, lo |-> 0], [hi |-> 16256, lo |-> 0], [hi |-> 49024, lo |-> 0],
     [hi |-> 16128, lo |-> 0], [hi |-> 0, lo |-> 1], [hi |-> 32704, lo |-> 1]}

\* bit patterns of f64 values: 0.0, 1.0, -1.0, the least subnormal, a NaN
F64Patterns ==
    {[hi |-> [hi |-> h, lo |-> 0], lo |-> [hi |-> 0, lo |-> l]] :
        h \in {0, 16368, 49136}, l \in {0}}
      \cup {[hi |-> [hi |-> 0, lo |-> 0], lo |-> [hi |-> 0, lo |-> 1]],
            [hi |-> [hi |-> 32760, lo |-> 0], lo |-> [hi |-> 0, lo |-> 1]]}

\* the values written through the raw methods
RawInputs(ty) ==
    CASE ty = "f32" -> F32Patterns
      [] ty = "f64" -> F64Patterns
      [] OTHER -> Inputs(ty)

RawIdle == [ty |-> "none", v |-> 0, before |-> << >>, buf |-> << >>,
            wrote |-> "none", read |-> "none", got |-> 0]

\* Sample::to_raw_le(v, ptr) / Sample::to_raw_be(v, ptr), ptr at the first
\* byte of the buffer
ToRaw(order) ==
    /\ raw.ty # "none" /\ raw.wrote = "none"
    /\ LET b == IF order = "le" THEN to_raw_le(raw.ty, raw.v)
                                ELSE to_raw_be(raw.ty, raw.v)
       IN  raw' = [raw EXCEPT !.wrote = order,
                              !.buf = [i \in 1..Len(raw.buf) |->
                                         IF i <= Len(b) THEN b[i] ELSE raw.buf[i]]]

\* Sample::from_raw_le(ptr) / Sample::from_raw_be(ptr)
FromRaw(order) ==
    /\ raw.wrote # "none" /\ raw.read = "none"
    /\ raw' = [raw EXCEPT !.read = order,
                          !.got = IF order = "le" THEN from_raw_le(raw.ty, raw.buf)
                                                  ELSE from_raw_be(raw.ty, raw.buf)]

---------------------------------------------------------------------------
(* Opening streams, layouts, device enumeration, the generic callback      *)

\* impl From<c_int> for Error
ErrorFrom(err) ==
    CASE err = 1 -> "NoMem" [] err = 2 -> "InitAudioBackend"
      [] err = 3 -> "SystemResources" [] err = 4 -> "OpeningDevice"
      [] err = 5 -> "NoSuchDevice" [] err = 6 -> "Invalid"
      [] err = 7 -> "BackendUnavailable" [] err = 8 -> "Streaming"
      [] err = 9 -> "IncompatibleDevice" [] err = 10 -> "NoSuchClient"
      [] err = 11 -> "IncompatibleBackend" [] err = 12 -> "BackendDisconnected"
      [] err = 13 -> "Interrupted" [] err = 14 -> "Underflow"
      [] err = 15 -> "EncodingString" [] OTHER -> "Unknown"

\* streams opened in one run
MaxStreams == 2

\* what soundio_outstream_open / soundio_instream_open may return: 0, NoMem,
\* OpeningDevice, IncompatibleDevice
OpenCodes == {0, 1, 4, 9}

\* what the layout_error field may hold after the open: 0, IncompatibleDevice
LayoutErrors == {0, 9}

\* no stream opened yet.  handle is the sequence of the raw streams asked
\* for, each with the number of soundio_*stream_destroy calls made on it,
\* what the open returned and whether the caller holds the stream object.
NoHandle == << >>

\* impl Drop for OutStreamUserData / InStreamUserData that destroys nothing
UserData_drop_Leak(h) == [h EXCEPT !.held = FALSE]

\* impl Drop for OutStreamUserData / InStreamUserData
UserData_drop(h) == [h EXCEPT !.destroys = @ + 1, !.held = FALSE]

\* Device::open_outstream / Device::open_instream.  created: whether
\* soundio_*stream_create returned a stream; code: what soundio_*stream_open
\* returned; layout_error: the field read after a successful open.
Open(k, created, code, layout_error) ==
    LET fresh == [kind |-> k, created |-> created, destroys |-> 0,
                  result |-> "none", held |-> created]
    IN  /\ Len(handle) < MaxStreams
        /\ handle' = Append(handle,
              IF ~created THEN [fresh EXCEPT !.result = "panic"]
              ELSE IF code # 0
              THEN [UserData_drop(fresh) EXCEPT !.result = ErrorFrom(code)]
              ELSE IF layout_error # 0
              THEN [UserData_drop(fresh) EXCEPT !.result = ErrorFrom(layout_error)]
              ELSE [fresh EXCEPT !.result = "Ok"])

open_outstream(created, code, layout_error) == Open("out", created, code, layout_error)

open_instream(created, code, layout_error) == Open("in", created, code, layout_error)

\* the caller drops the OutStream / InStream it was returned
DropStream(i) ==
    /\ i \in 1..Len(handle)
    /\ handle[i].held
    /\ handle' = [handle EXCEPT ![i] = UserData_drop(handle[i])]

\* layouts of the slice given to ChannelLayout::sort in one run
MaxLayouts == 3

\* ChannelLayout values: a name and the channels in order
SomeLayouts ==
    {[name |-> "Mono", channels |-> << "FrontCenter" >>],
     [name |-> "Stereo", channels |-> << "FrontLeft", "FrontRight" >>],
     [name |-> "2.1", channels |-> << "FrontLeft", "FrontRight", "Lfe" >>],
     [name |-> "3.0", channels |-> << "FrontLeft", "FrontRight", "FrontCenter" >>]}

\* the slices of n layouts
Slices(n) == [1..n -> SomeLayouts]

\* a.channels.len().cmp(&b.channels.len()) is not Greater
NotGreater(a, b) == Len(a.channels) <= Len(b.channels)

\* x put into the sorted slice s behind every element it is not smaller than
RECURSIVE InsertBehind(_, _)
InsertBehind(s, x) ==
    IF s = << >> THEN << x >>
    ELSE IF NotGreater(s[Len(s)], x) THEN Append(s, x)
    ELSE Append(InsertBehind(SubSeq(s, 1, Len(s) - 1), x), s[Len(s)])

\* slice::sort_by with the comparison of ChannelLayout::sort: a stable sort
RECURSIVE sort_by(_)
sort_by(s) ==
    IF s = << >> THEN << >>
    ELSE InsertBehind(sort_by(SubSeq(s, 1, Len(s) - 1)), s[Len(s)])

NoLayouts == [given |-> << >>, slice |-> << >>, sorted |-> FALSE]

\* ChannelLayout::sort(&mut layouts)
sort ==
    /\ ~layouts.sorted
    /\ layouts' = [layouts EXCEPT !.slice = sort_by(layouts.slice), !.sorted = TRUE]

\* devices of either direction the backend may hold
MaxDevices == 2

\* A Context: whether soundio_flush_events was ever called on it, the
\* devices of the backend's snapshot (n_in inputs, n_out outputs, probe the
\* probe_error of each device), and the latest enumeration call with its
\* outcome: "panic", "Ok" or the Error of an Err.
NoContext == [flushed |-> FALSE, n_in |-> 0, n_out |-> 0, probe |-> 0,
              op |-> "none", outcome |-> "none"]

\* soundio_input_device_count / soundio_output_device_count on n devices
soundio_device_count(n) == IF ctx.flushed THEN n ELSE -1

\* soundio_default_input_device_index / soundio_default_output_device_index
soundio_default_device_index(n) == IF ctx.flushed /\ n > 0 THEN 0 ELSE -1

\* soundio_get_input_device / soundio_get_output_device returns a device
soundio_get_device(n, index) == ctx.flushed /\ index >= 0 /\ index < n

\* Context::input_device / Context::output_device
device(n, index) ==
    IF ~soundio_get_device(n, index) THEN "OpeningDevice"
    ELSE IF ctx.probe # 0 THEN ErrorFrom(ctx.probe)
    ELSE "Ok"

\* Context::input_device_count / Context::output_device_count
device_count(n) == IF soundio_device_count(n) = -1 THEN "panic" ELSE "Ok"

\* Context::input_devices / Context::output_devices
devices(n) ==
    IF device_count(n) = "panic" THEN "panic"
    ELSE IF \E i \in 0..(soundio_device_count(n) - 1) : device(n, i) # "Ok"
    THEN device(n, 0)
    ELSE "Ok"

\* Context::default_input_device / Context::default_output_device
default_device(n) ==
    IF soundio_default_device_index(n) = -1 THEN "NoSuchDevice"
    ELSE device(n, soundio_default_device_index(n))

\* the latest call and its outcome
Called(op, outcome) == ctx' = [ctx EXCEPT !.op = op, !.outcome = outcome]

\* Context::flush_events
flush_events == ctx' = [ctx EXCEPT !.flushed = TRUE, !.op = "flush_events",
                                   !.outcome = "Ok"]

input_device_count == Called("input_device_count", device_count(ctx.n_in))

output_device_count == Called("output_device_count", device_count(ctx.n_out))

input_devices == Called("input_devices", devices(ctx.n_in))

output_devices == Called("output_devices", devices(ctx.n_out))

default_input_device == Called("default_input_device", default_device(ctx.n_in))

default_output_device == Called("default_output_device", default_device(ctx.n_out))

\* stream.rs: the callback of the generic OutStream<Frame>.
\* options.desired_frames_per_buffer: None or Some(v)
DesiredFrames ==
    {[some |-> FALSE, v |-> 0]} \cup [some : {TRUE}, v : 0..(MaxFrames + 1)]

\* desired.unwrap_or(0).max(frame_count_min).min(frame_count_max)
ClampedRequest(desired, frame_count_min, frame_count_max) ==
    LET wanted  == IF desired.some THEN desired.v ELSE 0
        raised  == IF wanted >= frame_count_min THEN wanted ELSE frame_count_min
    IN  IF raised <= frame_count_max THEN raised ELSE frame_count_max

\* the length, in elements of type Frame, of the slice built over the
\* section: from_raw_parts_mut(ptr as *mut Frame, frame_count * n_channels)
BufferLen(frame_count, n_channels) == CIntAsUsize(frame_count) * n_channels

\* codes soundio_outstream_begin_write / soundio_outstream_end_write return
GenericCodes == {0, 8}

NoGen == [desired |-> [some |-> FALSE, v |-> 0],
          frame_count_min |-> 0, frame_count_max |-> 0,
          n_channels |-> 0, requested |-> 0, granted |-> 0,
          buffer_len |-> 0, called |-> FALSE, outcome |-> "none"]

\* outstream_write_callback::<Frame> for a Frame of n_channels samples of
\* sample_size bytes, on a stream whose areas step by area_step bytes; the
\* transport answers begin_code and granted to the begin, end_code to the end
generic_outstream_write_callback(desired, frame_count_min, frame_count_max, n_channels, sample_size, area_step, begin_code, granted, end_code) ==
    LET frame_count == ClampedRequest(desired, frame_count_min, frame_count_max)
        invoked == [NoGen EXCEPT !.desired = desired,
                                 !.frame_count_min = frame_count_min,
                                 !.frame_count_max = frame_count_max,
                                 !.n_channels = n_channels,
                                 !.requested = frame_count]
    IN  /\ granted <= frame_count
        /\ gen' =
             IF begin_code # 0
             THEN [invoked EXCEPT !.outcome = "panic: " \o ErrorFrom(begin_code)]
             ELSE IF area_step # sample_size * n_channels
             THEN [invoked EXCEPT !.granted = granted, !.outcome = "panic: step"]
             ELSE [invoked EXCEPT
                     !.granted = granted,
                     !.buffer_len = BufferLen(granted, n_channels),
                     !.called = TRUE,
                     !.outcome = IF end_code = 0 THEN "returned"
                                 ELSE "panic: " \o ErrorFrom(end_code)]

\* the parts of the model a run does not use
HostIdle ==
    /\ handle = NoHandle
    /\ layouts = NoLayouts
    /\ ctx = NoContext
    /\ gen = NoGen

---------------------------------------------------------------------------
(* Specifications                                                          *)

NoLast == [op |-> "none", n |-> 0, ch |-> 0, sample |-> NoSample,
           before |-> [frame_count_min |-> 0, frame_count_max |-> 0,
                       started |-> FALSE, channel_areas |-> << >>,
                       frame_count |-> 0],
           acq |-> FALSE, outcome |-> "none", ret |-> -1, calls |-> << >>,
           touched |-> {}, printed |-> "none"]

StreamInit ==
    /\ kind \in {"out", "in"}
    /\ format \in OpenFormats
    /\ cc \in ChannelCounts
    /\ pc = "outside"
    /\ cursor = [frame_count_min |-> 0, frame_count_max |-> 0,
                 started |-> FALSE, channel_areas |-> << >>, frame_count |-> 0]
    /\ transport = [acquired |-> FALSE, granted |-> 0]
    /\ mem = [a \in {} |-> 0]
    /\ last = NoLast
    /\ script = "none"

\* the samples the callback writes
WriteSamples == {Sample("i16", -2)}

\* the types the callback reads samples as
ReadTypes == {"i16", "u8"}

\* what memory past a section may hold
Garbage == {0, 255}

Init == StreamInit /\ conv = ConvIdle /\ raw = RawIdle /\ HostIdle

Next ==
    \/ \E w \in Windows : outstream_write_callback(w[1], w[2]) /\ UNCHANGED <<script, conv, raw, hostVars>>
    \/ \E w \in Windows : instream_read_callback(w[1], w[2]) /\ UNCHANGED <<script, conv, raw, hostVars>>
    \/ \E n \in 0..(MaxFrames + 1) : \E r \in BeginResponses(n) :
          begin_write(n, r) /\ UNCHANGED <<script, conv, raw, hostVars>>
    \/ \E n \in 0..(MaxFrames + 1) : \E r \in BeginResponses(n) :
          begin_read(n, r) /\ UNCHANGED <<script, conv, raw, hostVars>>
    \/ \E code \in EndResponses : end_write(code) /\ UNCHANGED <<script, conv, raw, hostVars>>
    \/ \E code \in EndResponses : end_read(code) /\ UNCHANGED <<script, conv, raw, hostVars>>
    \/ FrameCount /\ UNCHANGED <<script, conv, raw, hostVars>>
    \/ \E c \in 0..2, f \in 0..MaxFrames, s \in WriteSamples :
          set_sample(c, f, s) /\ UNCHANGED <<script, conv, raw, hostVars>>
    \/ \E c \in 0..2, f \in 0..MaxFrames, ty \in ReadTypes, g \in Garbage :
          sample(c, f, ty, g) /\ UNCHANGED <<script, conv, raw, hostVars>>
    \/ \E code \in EndResponses : Drop(code) /\ UNCHANGED <<script, conv, raw, hostVars>>
    \/ \E code \in EndResponses : Unwind(code) /\ UNCHANGED <<script, conv, raw, hostVars>>
    \/ Abort /\ UNCHANGED <<script, conv, raw, hostVars>>

Spec == Init /\ [][Next]_vars

ConvInit ==
    /\ kind = "out" /\ format = "S8" /\ cc = 1 /\ pc = "outside"
    /\ cursor = [frame_count_min |-> 0, frame_count_max |-> 0,
                 started |-> FALSE, channel_areas |-> << >>, frame_count |-> 0]
    /\ transport = [acquired |-> FALSE, granted |-> 0]
    /\ mem = [a \in {} |-> 0]
    /\ last = NoLast
    /\ script = "none"
    /\ raw = RawIdle /\ HostIdle
    /\ \E ty \in ConvTypes : \E v \in Inputs(ty) :
          conv = [orig |-> Sample(ty, v), cur |-> Sample(ty, v), path |-> << ty >>]

ConvNext == \E to \in ConvTypes : Convert(to) /\ UNCHANGED <<streamVars, raw, hostVars>>

ConvSpec == ConvInit /\ [][ConvNext]_vars

\* what the buffer holds before the write: the byte at offset i - 1 is
\* Background + i
RawInit ==
    /\ kind = "out" /\ format = "S8" /\ cc = 1 /\ pc = "outside"
    /\ cursor = NoCursor
    /\ transport = Quiet
    /\ mem = EmptyMem
    /\ last = NoLast
    /\ script = "none"
    /\ conv = ConvIdle
    /\ HostIdle
    /\ \E ty \in ConvTypes : \E v \in RawInputs(ty) : \E g \in Backgrounds :
          LET b == [i \in 1..RawLen |-> g + i]
          IN  raw = [ty |-> ty, v |-> v, before |-> b, buf |-> b,
                     wrote |-> "none", read |-> "none", got |-> 0]

RawNext ==
    \/ \E order \in {"le", "be"} : ToRaw(order) /\ UNCHANGED <<streamVars, conv, hostVars>>
    \/ \E order \in {"le", "be"} : FromRaw(order) /\ UNCHANGED <<streamVars, conv, hostVars>>

RawSpec == RawInit /\ [][RawNext]_vars

\* Streams of the four 24-bit formats: a callback that acquires its whole
\* window and writes or reads samples.
Formats24 == {"S24LE", "S24BE", "U24LE", "U24BE"}

\* the samples written to the 24-bit streams
Samples24 == {Sample("i24", -8388608), Sample("i24", 66051), Sample("u24", 1)}

Init24 ==
    /\ kind \in {"out", "in"}
    /\ format \in Formats24
    /\ cc = 1
    /\ pc = "outside"
    /\ cursor = NoCursor
    /\ transport = Quiet
    /\ mem = EmptyMem
    /\ last = NoLast
    /\ script = "none"
    /\ conv = ConvIdle
    /\ raw = RawIdle /\ HostIdle

Next24 ==
    \/ outstream_write_callback(0, MaxFrames) /\ UNCHANGED <<script, conv, raw, hostVars>>
    \/ instream_read_callback(0, MaxFrames) /\ UNCHANGED <<script, conv, raw, hostVars>>
    \/ \E fill \in Fills :
          begin_write(MaxFrames, [code |-> "None", actual |-> MaxFrames, fill |-> fill])
             /\ UNCHANGED <<script, conv, raw, hostVars>>
    \/ \E fill \in Fills :
          begin_read(MaxFrames, [code |-> "None", actual |-> MaxFrames, fill |-> fill])
             /\ UNCHANGED <<script, conv, raw, hostVars>>
    \/ \E f \in 0..(MaxFrames - 1), s \in Samples24 :
          set_sample(0, f, s) /\ UNCHANGED <<script, conv, raw, hostVars>>
    \/ \E f \in 0..(MaxFrames - 1), ty \in {"i24", "u24"}, g \in Garbage :
          sample(0, f, ty, g) /\ UNCHANGED <<script, conv, raw, hostVars>>
    \/ \E code \in EndResponses : Drop(code) /\ UNCHANGED <<script, conv, raw, hostVars>>

Spec24 == Init24 /\ [][Next24]_vars

\* successful begins counted in one invocation
MaxCycles == 2

\* One invocation after another, with the calls made on the transport
\* counted: script holds the successful soundio_*_begin_* calls and the
\* soundio_*_end_* calls of the current invocation, and whether a begin was
\* made while a section was acquired.
NoTally == [begins |-> 0, ends |-> 0, overlap |-> FALSE]

\* the tally after the step that leaves the history last'
Tallied ==
    script' = [begins  |-> script.begins
                            + (IF last'.op = "begin" /\ last'.outcome = "ok"
                               THEN 1 ELSE 0),
               ends    |-> script.ends
                            + (IF last'.calls = << "end" >> THEN 1 ELSE 0),
               overlap |-> script.overlap
                            \/ (last'.op = "begin" /\ last'.acq)]

TallyInit ==
    /\ kind \in {"out", "in"}
    /\ format = "S8" /\ cc = 1 /\ pc = "outside"
    /\ cursor = NoCursor
    /\ transport = Quiet
    /\ mem = EmptyMem
    /\ last = NoLast
    /\ script = NoTally
    /\ conv = ConvIdle
    /\ raw = RawIdle /\ HostIdle

TallyNext ==
    \/ \E w \in Windows :
          /\ outstream_write_callback(w[1], w[2])
          /\ script' = NoTally /\ UNCHANGED <<conv, raw, hostVars>>
    \/ \E w \in Windows :
          /\ instream_read_callback(w[1], w[2])
          /\ script' = NoTally /\ UNCHANGED <<conv, raw, hostVars>>
    \/ \E n \in 0..MaxFrames : \E r \in BeginResponses(n) :
          /\ script.begins < MaxCycles
          /\ FrameCountInRange(n)
          /\ begin_write(n, r)
          /\ Tallied /\ UNCHANGED <<conv, raw, hostVars>>
    \/ \E n \in 0..MaxFrames : \E r \in BeginResponses(n) :
          /\ script.begins < MaxCycles
          /\ FrameCountInRange(n)
          /\ begin_read(n, r)
          /\ Tallied /\ UNCHANGED <<conv, raw, hostVars>>
    \/ \E code \in EndResponses :
          /\ script.ends <= MaxCycles
          /\ end_write(code)
          /\ Tallied /\ UNCHANGED <<conv, raw, hostVars>>
    \/ \E code \in EndResponses :
          /\ script.ends <= MaxCycles
          /\ end_read(code)
          /\ Tallied /\ UNCHANGED <<conv, raw, hostVars>>
    \/ \E code \in EndResponses :
          Drop(code) /\ Tallied /\ UNCHANGED <<conv, raw, hostVars>>

TallySpec == TallyInit /\ [][TallyNext]_vars

\* The transport answers a begin with any actual frame count, as the C
\* signature (frame_count: *mut c_int) allows: negative, zero or positive.
ActualCounts(req) == (-2)..req

AnyBeginResponses(req) ==
    [code : {"None"}, actual : ActualCounts(req), fill : Fills]
        \cup [code : BeginErrors, actual : {req}, fill : {0}]

\* script holds what the last successful begin returned, until the section
\* is committed
NoReturn == [returned |-> -1]

GrantInit ==
    /\ kind \in {"out", "in"}
    /\ format = "S8" /\ cc = 1 /\ pc = "outside"
    /\ cursor = NoCursor
    /\ transport = Quiet
    /\ mem = EmptyMem
    /\ last = NoLast
    /\ script = NoReturn
    /\ conv = ConvIdle
    /\ raw = RawIdle /\ HostIdle

\* the return value remembered after a begin
Returned ==
    script' = IF last'.outcome = "ok" THEN [returned |-> last'.ret] ELSE script

\* the return value forgotten once the section is committed
Committed ==
    script' = IF cursor'.started THEN script ELSE NoReturn

GrantNext ==
    \/ \E w \in Windows :
          /\ outstream_write_callback(w[1], w[2])
          /\ script' = NoReturn /\ UNCHANGED <<conv, raw, hostVars>>
    \/ \E w \in Windows :
          /\ instream_read_callback(w[1], w[2])
          /\ script' = NoReturn /\ UNCHANGED <<conv, raw, hostVars>>
    \/ \E n \in 0..MaxFrames : \E r \in AnyBeginResponses(n) :
          begin_write(n, r) /\ Returned /\ UNCHANGED <<conv, raw, hostVars>>
    \/ \E n \in 0..MaxFrames : \E r \in AnyBeginResponses(n) :
          begin_read(n, r) /\ Returned /\ UNCHANGED <<conv, raw, hostVars>>
    \/ FrameCount /\ UNCHANGED <<script, conv, raw, hostVars>>
    \/ \E code \in EndResponses :
          end_write(code) /\ Committed /\ UNCHANGED <<conv, raw, hostVars>>
    \/ \E code \in EndResponses :
          end_read(code) /\ Committed /\ UNCHANGED <<conv, raw, hostVars>>
    \/ \E code \in EndResponses :
          Drop(code) /\ script' = NoReturn /\ UNCHANGED <<conv, raw, hostVars>>

GrantSpec == GrantInit /\ [][GrantNext]_vars

\* The transport answers a begin with a numeric code: 0, or a SoundIoError
\* (Invalid, Streaming, Underflow), or a number past the known codes.
BeginCodes == {0, 6, 8, 14, 16}

\* the answer of the transport with its code turned into an Error by
\* `e => Err(e.into())`
Answered(c, actual, fill) ==
    [code |-> IF c = 0 THEN "None" ELSE ErrorFrom(c),
     actual |-> actual, fill |-> fill]

\* script holds the code of the last begin and what begin returned for it
NoAnswer == [code |-> 0, result |-> "none"]

BeginResult(c, r) ==
    script' = [code |-> c,
               result |-> IF last'.outcome = "err" THEN r.code
                          ELSE IF last'.outcome = "ok" THEN "Ok" ELSE "panic"]

RejectInit ==
    /\ kind \in {"out", "in"}
    /\ format = "S8" /\ cc = 1 /\ pc = "outside"
    /\ cursor = NoCursor
    /\ transport = Quiet
    /\ mem = EmptyMem
    /\ last = NoLast
    /\ script = NoAnswer
    /\ conv = ConvIdle
    /\ raw = RawIdle /\ HostIdle

RejectNext ==
    \/ \E w \in Windows :
          outstream_write_callback(w[1], w[2]) /\ UNCHANGED <<script, conv, raw, hostVars>>
    \/ \E w \in Windows :
          instream_read_callback(w[1], w[2]) /\ UNCHANGED <<script, conv, raw, hostVars>>
    \/ \E n \in 0..MaxFrames, c \in BeginCodes, g \in 0..MaxFrames, f \in Fills :
          /\ g <= n
          /\ begin_write(n, Answered(c, g, f))
          /\ BeginResult(c, Answered(c, g, f))
          /\ UNCHANGED <<conv, raw, hostVars>>
    \/ \E n \in 0..MaxFrames, c \in BeginCodes, g \in 0..MaxFrames, f \in Fills :
          /\ g <= n
          /\ begin_read(n, Answered(c, g, f))
          /\ BeginResult(c, Answered(c, g, f))
          /\ UNCHANGED <<conv, raw, hostVars>>
    \/ \E code \in EndResponses :
          end_write(code) /\ UNCHANGED <<script, conv, raw, hostVars>>
    \/ \E code \in EndResponses :
          end_read(code) /\ UNCHANGED <<script, conv, raw, hostVars>>
    \/ \E code \in EndResponses :
          Drop(code) /\ UNCHANGED <<script, conv, raw, hostVars>>

RejectSpec == RejectInit /\ [][RejectNext]_vars

\* The callbacks of the examples sine and player (write_callback) and
\* recorder (read_callback).  script holds the position in the callback and
\* its local frames_left.
ExampleInit ==
    /\ kind \in {"out", "in"}
    /\ format = "S8" /\ cc = 1 /\ pc = "outside"
    /\ cursor = NoCursor
    /\ transport = Quiet
    /\ mem = EmptyMem
    /\ last = NoLast
    /\ conv = ConvIdle
    /\ raw = RawIdle /\ HostIdle
    /\ script = [step |-> "start", channel |-> 0, frame |-> 0, frames_left |-> 0]

\* what the transport answers to the request of an example: an error, or
\* between one frame and the requested count
ExampleResponses(req) ==
    [code : {"None"}, actual : 1..req, fill : Fills]
        \cup [code : BeginErrors, actual : {req}, fill : {0}]

\* the loops over the channels and frames of the section
AfterSample ==
    IF script.frame + 1 < cursor.frame_count
    THEN [script EXCEPT !.frame = script.frame + 1]
    ELSE IF script.channel + 1 < cc
    THEN [script EXCEPT !.channel = script.channel + 1, !.frame = 0]
    ELSE [script EXCEPT !.step = "advance", !.channel = 0, !.frame = 0]

\* `if let Err(e) = stream.begin_write(frames_left) { println!(..); return; }`
AfterRequest ==
    script' = [script EXCEPT !.step = IF last'.outcome = "ok" THEN "fill"
                                      ELSE IF last'.outcome = "err" THEN "return"
                                      ELSE "panicked"]

ExampleNext ==
    \/ /\ script.step \in {"start", "returned"}
       /\ \E w \in Windows :
             /\ outstream_write_callback(w[1], w[2])
             /\ script' = [step |-> "begin", channel |-> 0, frame |-> 0,
                           frames_left |-> CIntAsUsize(w[2])]
       /\ UNCHANGED <<conv, raw, hostVars>>
    \/ /\ script.step \in {"start", "returned"}
       /\ \E w \in Windows :
             /\ instream_read_callback(w[1], w[2])
             /\ script' = [step |-> "begin", channel |-> 0, frame |-> 0,
                           frames_left |-> CIntAsUsize(w[2])]
       /\ UNCHANGED <<conv, raw, hostVars>>
    \/ /\ script.step = "begin"
       /\ \E r \in ExampleResponses(script.frames_left) :
             begin_write(script.frames_left, r)
       /\ AfterRequest
       /\ UNCHANGED <<conv, raw, hostVars>>
    \/ /\ script.step = "begin"
       /\ \E r \in ExampleResponses(script.frames_left) :
             begin_read(script.frames_left, r)
       /\ AfterRequest
       /\ UNCHANGED <<conv, raw, hostVars>>
    \/ /\ script.step = "fill"
       /\ set_sample(script.channel, script.frame, Sample("f32", Float(0, 1)))
       /\ script' = AfterSample
       /\ UNCHANGED <<conv, raw, hostVars>>
    \/ /\ script.step = "fill"
       /\ \E g \in Garbage : sample(script.channel, script.frame, "i16", g)
       /\ script' = AfterSample
       /\ UNCHANGED <<conv, raw, hostVars>>
    \/ /\ script.step = "advance"                 \* frames_left <= 0: break
       /\ script.frames_left - cursor.frame_count <= 0
       /\ script' = [script EXCEPT !.step = "return",
                                   !.frames_left = @ - cursor.frame_count]
       /\ UNCHANGED <<kind, format, cc, pc, cursor, transport, mem, last,
                    conv, raw, hostVars>>
    \/ /\ script.step = "advance"
       /\ script.frames_left - cursor.frame_count > 0
       /\ \E code \in EndResponses : end_write(code)
       /\ script' = [script EXCEPT !.step = "begin",
                                   !.frames_left = @ - cursor.frame_count]
       /\ UNCHANGED <<conv, raw, hostVars>>
    \/ /\ script.step = "advance"
       /\ script.frames_left - cursor.frame_count > 0
       /\ \E code \in EndResponses : end_read(code)
       /\ script' = [script EXCEPT !.step = "begin",
                                   !.frames_left = @ - cursor.frame_count]
       /\ UNCHANGED <<conv, raw, hostVars>>
    \/ /\ script.step = "return"
       /\ \E code \in EndResponses : Drop(code)
       /\ script' = [script EXCEPT !.step = "returned"]
       /\ UNCHANGED <<conv, raw, hostVars>>

ExampleSpec == ExampleInit /\ [][ExampleNext]_vars

\* Invocations of the write callback of the generic stream, for frames of
\* one and two samples of one or two bytes.
GenericInit ==
    /\ kind = "out" /\ format = "S8" /\ cc = 1 /\ pc = "outside"
    /\ cursor = NoCursor
    /\ transport = Quiet
    /\ mem = EmptyMem
    /\ last = NoLast
    /\ script = "none"
    /\ conv = ConvIdle
    /\ raw = RawIdle /\ HostIdle

GenericNext ==
    \E desired \in DesiredFrames, w \in Windows, n_channels \in ChannelCounts,
       sample_size \in {1, 2}, stream_channels \in ChannelCounts,
       begin_code \in GenericCodes, granted \in 0..MaxFrames,
       end_code \in GenericCodes :
        /\ generic_outstream_write_callback(desired, w[1], w[2], n_channels,
                sample_size, sample_size * stream_channels,
                begin_code, granted, end_code)
        /\ UNCHANGED <<streamVars, conv, raw, handle, layouts, ctx>>

GenericSpec == GenericInit /\ [][GenericNext]_vars

\* Devices are enumerated on a Context, before and after flush_events.
CtxInit ==
    /\ kind = "out" /\ format = "S8" /\ cc = 1 /\ pc = "outside"
    /\ cursor = NoCursor
    /\ transport = Quiet
    /\ mem = EmptyMem
    /\ last = NoLast
    /\ script = "none"
    /\ conv = ConvIdle
    /\ raw = RawIdle
    /\ handle = NoHandle /\ layouts = NoLayouts /\ gen = NoGen
    /\ \E i \in 0..MaxDevices, o \in 0..MaxDevices, p \in {0, 4} :
          ctx = [NoContext EXCEPT !.n_in = i, !.n_out = o, !.probe = p]

CtxNext ==
    \/ flush_events /\ UNCHANGED <<streamVars, conv, raw, handle, layouts, gen>>
    \/ input_device_count /\ UNCHANGED <<streamVars, conv, raw, handle, layouts, gen>>
    \/ output_device_count /\ UNCHANGED <<streamVars, conv, raw, handle, layouts, gen>>
    \/ input_devices /\ UNCHANGED <<streamVars, conv, raw, handle, layouts, gen>>
    \/ output_devices /\ UNCHANGED <<streamVars, conv, raw, handle, layouts, gen>>
    \/ default_input_device /\ UNCHANGED <<streamVars, conv, raw, handle, layouts, gen>>
    \/ default_output_device /\ UNCHANGED <<streamVars, conv, raw, handle, layouts, gen>>

CtxSpec == CtxInit /\ [][CtxNext]_vars

\* A slice of layouts is sorted.
SortInit ==
    /\ kind = "out" /\ format = "S8" /\ cc = 1 /\ pc = "outside"
    /\ cursor = NoCursor
    /\ transport = Quiet
    /\ mem = EmptyMem
    /\ last = NoLast
    /\ script = "none"
    /\ conv = ConvIdle
    /\ raw = RawIdle
    /\ handle = NoHandle /\ ctx = NoContext /\ gen = NoGen
    /\ \E n \in 0..MaxLayouts : \E s \in Slices(n) :
          layouts = [given |-> s, slice |-> s, sorted |-> FALSE]

SortNext == sort /\ UNCHANGED <<streamVars, conv, raw, handle, ctx, gen>>

SortSpec == SortInit /\ [][SortNext]_vars

\* Streams are opened on a device and dropped by their owner.
OpenInit ==
    /\ kind = "out" /\ format = "S8" /\ cc = 1 /\ pc = "outside"
    /\ cursor = NoCursor
    /\ transport = Quiet
    /\ mem = EmptyMem
    /\ last = NoLast
    /\ script = "none"
    /\ conv = ConvIdle
    /\ raw = RawIdle /\ HostIdle

OpenNext ==
    \/ \E created \in BOOLEAN, code \in OpenCodes, le \in LayoutErrors :
          open_outstream(created, code, le)
             /\ UNCHANGED <<streamVars, conv, raw, layouts, ctx, gen>>
    \/ \E created \in BOOLEAN, code \in OpenCodes, le \in LayoutErrors :
          open_instream(created, code, le)
             /\ UNCHANGED <<streamVars, conv, raw, layouts, ctx, gen>>
    \/ \E i \in 1..MaxStreams :
          DropStream(i) /\ UNCHANGED <<streamVars, conv, raw, layouts, ctx, gen>>

OpenSpec == OpenInit /\ [][OpenNext]_vars

\* The callback of the documentation of set_sample, on an S8 stream of two
\* channels: one begin_write of the whole window, then one value written to
\* every sample, channel by channel.
Silence == Float(0, 1)

FullNegative == Float(-1, 1)

ScenarioInit ==
    /\ kind = "out" /\ format = "S8" /\ cc = 2 /\ pc = "outside"
    /\ cursor = NoCursor
    /\ transport = Quiet
    /\ mem = EmptyMem
    /\ last = NoLast
    /\ conv = ConvIdle
    /\ raw = RawIdle /\ HostIdle
    /\ \E v \in {Silence, FullNegative} :
          script = [step |-> "start", channel |-> 0, frame |-> 0, value |-> v]

\* the script after the write to (script.channel, script.frame)
AfterWrite ==
    IF script.frame + 1 < cursor.frame_count
    THEN [script EXCEPT !.frame = script.frame + 1]
    ELSE IF script.channel + 1 < cc
    THEN [script EXCEPT !.channel = script.channel + 1, !.frame = 0]
    ELSE [script EXCEPT !.step = "written"]

ScenarioNext ==
    \/ /\ script.step = "start"
       /\ outstream_write_callback(0, 64)
       /\ script' = [script EXCEPT !.step = "begin"]
       /\ UNCHANGED <<conv, raw, hostVars>>
    \/ /\ script.step = "begin"
       /\ \E fill \in Fills :
             begin_write(cursor.frame_count_max,
                         [code |-> "None", actual |-> cursor.frame_count_max,
                          fill |-> fill])
       /\ script' = [script EXCEPT !.step = "write"]
       /\ UNCHANGED <<conv, raw, hostVars>>
    \/ /\ script.step = "write"
       /\ set_sample(script.channel, script.frame, Sample("f32", script.value))
       /\ script' = AfterWrite
       /\ UNCHANGED <<conv, raw, hostVars>>
    \/ /\ script.step = "written"
       /\ \E code \in EndResponses : Drop(code)
       /\ script' = [script EXCEPT !.step = "returned"]
       /\ UNCHANGED <<conv, raw, hostVars>>

ScenarioSpec == ScenarioInit /\ [][ScenarioNext]_vars


---------------------------------------------------------------------------
(* Properties of the conversion engine                                     *)

\* the signed type of the same width as an unsigned one, and back
SignedOf(ty) ==
    CASE ty = "u8" -> "i8" [] ty = "u16" -> "i16" [] ty = "u24" -> "i24" [] ty = "u32" -> "i32"

UnsignedOf(ty) ==
    CASE ty = "i8" -> "u8" [] ty = "i16" -> "u16" [] ty = "i24" -> "u24" [] ty = "i32" -> "u32"

\* C9: for every unsigned value v of width 8, 16, 24 or 32, converting v to
\* the signed type of the same width and back yields v:
\* uN::from_iN(iN::from_uN(v)) == v, the maximum of each width included.
C9_UnsignedRoundTrip ==
    \A u \in UnsignedTypes :
        conv.path = << u, SignedOf(u), u >> => conv.cur = conv.orig

\* C9 witness: the round trip of the largest u24 and of the largest u32 has
\* been carried out
C9_Witness ==
    \/ /\ conv.path = << "u24", "i24", "u24" >>
       /\ conv.orig = Sample("u24", u24_max_value)
       /\ conv.cur = conv.orig
    \/ /\ conv.path = << "u32", "i32", "u32" >>
       /\ conv.orig = Sample("u32", [hi |-> 65535, lo |-> 65535])
       /\ conv.cur = conv.orig

\* C10: for every signed value v of width 8, 16, 24 or 32, converting v to
\* the unsigned type of the same width and back yields a value equal to v:
\* iN::from_uN(uN::from_iN(v)) == v, negative values included.
C10_SignedRoundTrip ==
    \A i \in SignedTypes :
        conv.path = << i, UnsignedOf(i), i >> => conv.cur = conv.orig

\* the range of each integer sample type, as the Sample trait documents it
DomainMin(ty) ==
    CASE ty \in {"u8", "u16", "u24"} -> 0
      [] ty = "u32" -> U32(0)
      [] ty \in {"i8", "i16", "i24"} -> -Pow2(Width(ty) - 1)
      [] ty = "i32" -> I32Min

DomainMax(ty) ==
    CASE ty \in {"u8", "u16", "u24"} -> Pow2(Width(ty)) - 1
      [] ty = "u32" -> [hi |-> 65535, lo |-> 65535]
      [] ty \in {"i8", "i16", "i24"} -> Pow2(Width(ty) - 1) - 1
      [] ty = "i32" -> I32Max

\* C11: for every pair of integer widths n < w among 8, 16, 24, 32, every
\* signedness of the narrow and of the wide type and every value v of the
\* narrow type, converting v to the wide type and back yields v.
C11_WidenThenNarrow ==
    (/\ Len(conv.path) = 3
     /\ conv.path[1] = conv.path[3]
     /\ conv.path[1] \in IntTypes /\ conv.path[2] \in IntTypes
     /\ Width(conv.path[1]) < Width(conv.path[2])) =>
        conv.cur = conv.orig

\* C11 witness: the most negative i8 has gone through u24 and come back
C11_Witness ==
    /\ conv.path = << "i8", "u24", "i8" >>
    /\ conv.orig = Sample("i8", -128)
    /\ conv.cur = conv.orig

\* C12: every conversion that produces a u24 yields a backing integer in
\* [0, 2^24 - 1], and every conversion that produces an i24 yields a backing
\* integer in [-2^23, 2^23 - 1].
C12_Backing24InRange ==
    (Len(conv.path) >= 2 /\ conv.cur.ty \in {"u24", "i24"}) =>
        /\ conv.cur.v >= DomainMin(conv.cur.ty)
        /\ conv.cur.v <= DomainMax(conv.cur.ty)

\* C13: for each of the eight integer types T, T::from_f32 and T::from_f64
\* return the minimum of T's range for every v <= -1.0 (-2^23 for i24) and
\* the maximum of T's range for every v >= 1.0.
C13_FloatSaturates ==
    (/\ Len(conv.path) = 2
     /\ conv.path[1] \in FloatTypes /\ conv.path[2] \in IntTypes) =>
        /\ ~FLess(FNeg(One), conv.orig.v) => conv.cur.v = DomainMin(conv.path[2])
        /\ ~FLess(conv.orig.v, One) => conv.cur.v = DomainMax(conv.path[2])

\* v / 2^(w-1) for a signed sample, v / 2^(w-1) - 1 for an unsigned one, as
\* an exact number
Scaled(s) ==
    LET k == Width(s.ty) - 1
    IN  IF s.ty = "u32"
        THEN Norm(U32AsI32(U32WrappingAdd(s.v, [hi |-> 32768, lo |-> 0])), -k)
        ELSE IF s.ty \in UnsignedTypes THEN Norm(s.v - Pow2(k), -k)
        ELSE Norm(s.v, -k)

\* the midpoint of an integer type: 0 for signed, 2^(w-1) for unsigned
Midpoint(ty) ==
    CASE ty \in {"u8", "u16", "u24"} -> Pow2(Width(ty) - 1)
      [] ty = "u32" -> [hi |-> 32768, lo |-> 0]
      [] ty \in SignedTypes -> 0

\* the conversion just made is one from an integer type to a float type
IntToFloat ==
    /\ Len(conv.path) = 2
    /\ conv.path[1] \in IntTypes /\ conv.path[2] \in FloatTypes

\* C14 as stated: integer-to-float conversion maps the minimum of every
\* integer type to exactly -1.0 and the midpoint to exactly 0.0; for signed
\* v the result is v / 2^(w-1), for unsigned v it is v / 2^(w-1) - 1.
C14_AsStated ==
    IntToFloat =>
        /\ conv.orig.v = DomainMin(conv.orig.ty) => conv.cur.v = FNeg(One)
        /\ conv.orig.v = Midpoint(conv.orig.ty) => conv.cur.v = Fl(0, 0)
        /\ conv.cur.v = Scaled(conv.orig)

\* the distance between the result of the conversion and Scaled(orig)
Deviation ==
    IF conv.cur.v.m < 0 THEN FAdd(53, conv.cur.v, FNeg(Scaled(conv.orig)))
                        ELSE FAdd(53, Scaled(conv.orig), FNeg(conv.cur.v))

\* C14 amended: integer-to-float conversion maps the minimum of every
\* integer type to exactly -1.0 and the midpoint to exactly 0.0; for signed
\* v the result is v / 2^(w-1), for unsigned v it is v / 2^(w-1) - 1, exactly
\* in f64 and in f32 from the types of at most 24 bits; f32 from i32 or u32
\* is within 2^-24 of it.
C14_IntToFloat ==
    IntToFloat =>
        /\ conv.orig.v = DomainMin(conv.orig.ty) => conv.cur.v = FNeg(One)
        /\ conv.orig.v = Midpoint(conv.orig.ty) => conv.cur.v = Fl(0, 0)
        /\ IF conv.cur.ty = "f64" \/ Width(conv.orig.ty) <= 24
           THEN conv.cur.v = Scaled(conv.orig)
           ELSE /\ ~FLess(Fl(1, -24), Deviation)
                /\ ~FLess(Deviation, Fl(-1, -24))

\* C14 witness: f32::from_u8(192) has returned 0.5
C14_Witness ==
    /\ conv.path = << "u8", "f32" >>
    /\ conv.orig = Sample("u8", 192)
    /\ conv.cur = Sample("f32", Fl(1, -1))

\* C15: for every integer type T of at most 24 bits and every value v of T,
\* T::from_f64(f64::from_T(v)) == v, also when v first goes through another
\* integer type at least as wide and through either float type.
C15_IntThroughFloat ==
    /\ (/\ Len(conv.path) = 3
        /\ conv.path[1] = conv.path[3] /\ conv.path[2] = "f64"
        /\ conv.path[1] \in IntTypes /\ Width(conv.path[1]) <= 24) =>
            conv.cur = conv.orig
    /\ (/\ Len(conv.path) = 4
        /\ conv.path[1] = conv.path[4] /\ conv.path[3] \in FloatTypes
        /\ conv.path[1] \in IntTypes /\ Width(conv.path[1]) <= 24
        /\ conv.path[2] \in IntTypes
        /\ Width(conv.path[2]) >= Width(conv.path[1])) =>
            conv.cur = conv.orig

---------------------------------------------------------------------------
(* Properties of the raw methods                                           *)

\* C16: for each of the ten representations (floats as their bit patterns)
\* and every value v, from_raw_le applied to the bytes written by
\* to_raw_le(v) returns v.
C16_RawLeRoundTrip ==
    (raw.wrote = "le" /\ raw.read = "le") => raw.got = raw.v

\* a negative i24 written and read back little endian
C16_Witness ==
    /\ raw.ty = "i24" /\ raw.v = -8388608
    /\ raw.wrote = "le" /\ raw.read = "le"
    /\ raw.got = raw.v

\* C17: for each of the ten representations (floats as their bit patterns)
\* and every value v, from_raw_be applied to the bytes written by
\* to_raw_be(v) returns v.
C17_RawBeRoundTrip ==
    (raw.wrote = "be" /\ raw.read = "be") => raw.got = raw.v

\* the value of type ty whose bytes are those of v in the opposite order
swap_bytes(ty, v) ==
    IF ty \in {"u24", "i24"}
    THEN LET b == << v % 256, (v \div 256) % 256, (v \div 65536) % 256 >>
             u == b[3] + 256 * b[2] + 65536 * b[1]
         IN  IF ty = "i24" THEN AsSigned(24, u) ELSE u
    ELSE FromLeBytes(ty, Reverse(LeBytes(ty, v)))

\* C18: for every multi-byte representation and every value v, to_raw_be
\* writes the bytes of v most significant first, the reverse of the bytes
\* to_raw_le writes for v; and from_raw_be applied to the bytes written by
\* to_raw_le returns the byte-swapped value.
C18_BeIsReverseOfLe ==
    (raw.ty # "none" /\ StorageBytes(raw.ty) >= 2) =>
        /\ raw.wrote = "be" =>
              SubSeq(raw.buf, 1, StorageBytes(raw.ty))
                 = Reverse(to_raw_le(raw.ty, raw.v))
        /\ (raw.wrote = "le" /\ raw.read = "be") =>
              raw.got = swap_bytes(raw.ty, raw.v)

\* the 24-bit value held by three bytes in the given byte order
Decode24(ty, order, b) ==
    LET u == IF order = "le" THEN b[1] + 256 * b[2] + 65536 * b[3]
                             ELSE b[3] + 256 * b[2] + 65536 * b[1]
    IN  IF ty = "i24" THEN AsSigned(24, u) ELSE u

\* C19: for u24 and i24, to_raw_le and to_raw_be leave every byte other
\* than those at offsets 0, 1, 2 from the pointer unchanged, and the value
\* from_raw_le and from_raw_be return is the one held by those three bytes.
C19_ThreeBytesOnly ==
    raw.ty \in {"u24", "i24"} =>
        /\ raw.wrote # "none" =>
              \A i \in 4..Len(raw.buf) : raw.buf[i] = raw.before[i]
        /\ raw.read # "none" =>
              raw.got = Decode24(raw.ty, raw.read, SubSeq(raw.buf, 1, 3))

\* the three least significant bytes of the 4-byte word at address at, taken
\* in the byte order of the stream's format, in the order they lie in memory
LowThree(at) ==
    IF FormatIsBE(format) THEN << mem[at + 1], mem[at + 2], mem[at + 3] >>
                          ELSE << mem[at], mem[at + 1], mem[at + 2] >>

\* the 24-bit value the word of the sample last accessed holds in its low
\* three bytes
WordValue ==
    Decode24(FormatType(format), IF FormatIsBE(format) THEN "be" ELSE "le",
             LowThree(SampleAddress(last.ch, last.n)))

\* C20: on a stream whose format is S24LE, S24BE, U24LE or U24BE, set_sample
\* stores the 24 bits of the value in the low three bytes of the sample's
\* 4-byte word taken in the format's byte order, and sample() returns the
\* value read from those three bytes.
C20_LowThreeBytes ==
    (format \in Formats24 /\ last.outcome = "ok") =>
        /\ last.op = "set_sample" =>
              AsUnsigned(24, WordValue)
                 = AsUnsigned(24, impl_to_methods(FormatType(format), last.sample).v)
        /\ last.op = "sample" =>
              last.sample = impl_to_methods(last.sample.ty,
                                Sample(FormatType(format), WordValue))

\* C21: every raw stream created by open_outstream / open_instream is
\* destroyed exactly once: when the open fails or reports a layout error the
\* error is returned, no stream object is returned and the raw stream is
\* destroyed before the call returns; otherwise it is destroyed when the
\* stream object is dropped, and never before.
C21_DestroyedOnce ==
    \A i \in 1..Len(handle) :
        LET h == handle[i]
        IN  /\ h.destroys <= 1
            /\ ~h.created => (h.destroys = 0 /\ ~h.held /\ h.result = "panic")
            /\ (h.created /\ h.result # "Ok") =>
                  (h.destroys = 1 /\ ~h.held /\ h.result \notin {"none", "panic"})
            /\ (h.created /\ h.result = "Ok") =>
                  h.destroys = (IF h.held THEN 0 ELSE 1)

\* C21 witness: one open failed on a layout error, another succeeded and its
\* stream was dropped
C21_Witness ==
    /\ Len(handle) = 2
    /\ handle[1].result = "IncompatibleDevice" /\ handle[1].destroys = 1
    /\ handle[2].result = "Ok" /\ ~handle[2].held /\ handle[2].destroys = 1

\* how many times layout x occurs in the slice s, name and channels compared
Occurrences(s, x) == Cardinality({i \in 1..Len(s) : s[i] = x})

\* C23: ChannelLayout::sort orders the layouts by channel count in
\* descending order, every layout having at least as many channels as the
\* one after it, and keeps the same multiset of layouts.
C23_SortDescending ==
    layouts.sorted =>
        /\ \A i \in 1..(Len(layouts.slice) - 1) :
              Len(layouts.slice[i].channels) >= Len(layouts.slice[i + 1].channels)
        /\ Len(layouts.slice) = Len(layouts.given)
        /\ \A x \in SomeLayouts :
              Occurrences(layouts.slice, x) = Occurrences(layouts.given, x)

\* C24: on a Context on which flush_events has never been called,
\* input_device_count, output_device_count, input_devices, output_devices,
\* default_input_device and default_output_device each panic instead of
\* returning a value.
C24_EnumerationNeedsFlush ==
    (/\ ~ctx.flushed
     /\ ctx.op \in {"input_device_count", "output_device_count",
                    "input_devices", "output_devices",
                    "default_input_device", "default_output_device"}) =>
        ctx.outcome = "panic"

---------------------------------------------------------------------------
(* Properties of the buffer access protocol                                *)

\* the request of the latest begin lies in the window of its invocation
LastInWindow ==
    /\ last.n >= last.before.frame_count_min
    /\ last.n <= last.before.frame_count_max

\* C1: a begin_write / begin_read made while the cursor is Acquired (a begin
\* of this invocation succeeded and no commit has succeeded since) is
\* rejected as a contract violation and starts no second acquisition on the
\* transport.
C1_SecondBeginRejected ==
    (last.op = "begin" /\ last.acq) =>
        (last.outcome = "panic" /\ last.calls = << >>)

\* C2: a begin whose request lies outside [frame_count_min, frame_count_max]
\* panics before any call of the transport and leaves the cursor as it was;
\* a begin whose request lies inside the closed range, its two ends
\* included, passes the assert and reaches the transport.
C2_RequestChecked ==
    last.op = "begin" =>
        IF LastInWindow
        THEN last.outcome # "panic" /\ last.calls = << "begin" >>
        ELSE /\ last.outcome = "panic"
             /\ last.calls = << >>
             /\ cursor = last.before
             /\ pc = "panicked"

\* C2 witness: a request one below a positive frame_count_min has panicked
\* with the cursor Idle
C2_Witness ==
    /\ last.op = "begin"
    /\ last.before.frame_count_min > 0
    /\ last.n = last.before.frame_count_min - 1
    /\ last.outcome = "panic"

\* C3: an end_write / end_read made while the cursor is Acquired leaves the
\* cursor out of Acquired whatever the transport answered: afterwards
\* frame_count() and every set_sample / sample are rejected.
C3_EndLeavesAcquired ==
    (last.op = "end" /\ last.acq) =>
        /\ ~cursor.started
        /\ \A c \in 0..(cc - 1), f \in 0..MaxFrames : ~AccessAllowed(c, f)

\* C4: when the invocation returns with the cursor Acquired, dropping the
\* cursor attempts exactly one commit and an error of it is printed, not
\* returned or raised; when it returns with the cursor Idle, no commit is
\* attempted.
C4_DropCommitsOnce ==
    last.op = "drop" =>
        /\ last.calls = IF last.acq THEN << "end" >> ELSE << >>
        /\ last.outcome = "ok"
        /\ last.ret = -1
        /\ pc = "outside"
        /\ last.printed # "none" => last.calls = << "end" >>

\* C4 witness: an invocation has returned Acquired and the commit of its
\* drop failed
C4_Witness ==
    /\ last.op = "drop"
    /\ last.acq
    /\ last.calls = << "end" >>
    /\ last.printed = "Streaming"
    /\ pc = "outside"

\* C5: set_sample / sample touch the section's memory only when the cursor
\* is Acquired, the channel is below the channel count and the frame is
\* below the frame count the latest begin granted; in every other case they
\* panic and touch no byte.
C5_AccessGuarded ==
    last.op \in {"set_sample", "sample"} =>
        IF transport.acquired /\ last.ch < cc /\ last.n < transport.granted
        THEN last.outcome = "ok"
        ELSE last.outcome = "panic" /\ last.touched = {} /\ pc = "panicked"

\* C5 witness: an access to the frame just past the granted ones, on a
\* valid channel of an Acquired cursor, has panicked
C5_Witness ==
    /\ last.op \in {"set_sample", "sample"}
    /\ transport.acquired
    /\ transport.granted > 0
    /\ last.ch < cc
    /\ last.n = transport.granted
    /\ last.outcome = "panic"
    /\ last.touched = {}

\* C6: a begin the transport answers with 0 frames returns Ok(0), not an
\* error, and leaves the cursor holding no channel areas, also when an
\* earlier cycle of the same invocation held areas.
C6_ZeroGrantHoldsNoAreas ==
    (/\ last.op = "begin"
     /\ ~last.acq
     /\ last.outcome = "ok"
     /\ transport.granted = 0) =>
        /\ last.ret = 0
        /\ cursor.channel_areas = << >>

\* C7: an end_write / end_read made while the cursor is Idle calls nothing
\* on the transport and changes no field of the cursor.
C7_IdleEndIsNoOp ==
    (last.op = "end" /\ ~last.acq) =>
        /\ last.calls = << >>
        /\ last.outcome = "ok"
        /\ cursor = last.before
        /\ pc = "callback"

\* C7 witness: an end after the section of an earlier cycle was committed
C7_Witness ==
    /\ last.op = "end"
    /\ ~last.acq
    /\ Len(last.before.channel_areas) > 0
    /\ last.calls = << >>

\* C22: every callback invocation starts with a new cursor: Idle, no channel
\* areas, frame count 0, and the bounds the transport passed for this
\* invocation, however an earlier invocation ended.
C22_FreshCursor ==
    last.op = "callback" =>
        /\ cursor = [frame_count_min |-> last.ch, frame_count_max |-> last.n,
                     started |-> FALSE, channel_areas |-> << >>,
                     frame_count |-> 0]
        /\ \A c \in 0..(cc - 1), f \in 0..MaxFrames : ~AccessAllowed(c, f)

\* C22 witness: an invocation has started with the window [1, MaxFrames]
C22_Witness ==
    /\ last.op = "callback"
    /\ pc = "callback"
    /\ cursor.frame_count_min = 1
    /\ cursor.frame_count_max = MaxFrames

\* the bytes of the sample (c, f) in the section: base_c + f * stride_c and
\* the storage width of the format
SampleBytes(c, f) ==
    LET lo == Areas[c + 1].ptr + f * Areas[c + 1].step
    IN  lo..(lo + BytesPerSample(format) - 1)

\* C25: set_sample(c, f, v) changes only bytes inside
\* [base_c + f * stride_c, base_c + f * stride_c + storage width) of the
\* acquired section; every other byte, so every other sample, is unchanged.
C25_WriteStaysInSample ==
    [][(last'.op = "set_sample" /\ last'.outcome = "ok") =>
          /\ DOMAIN mem' = DOMAIN mem
          /\ \A a \in DOMAIN mem :
                a \notin SampleBytes(last'.ch, last'.n) => mem'[a] = mem[a]]_vars

\* C25 witness: the second frame of the second channel has been written
C25_Witness ==
    /\ last.op = "set_sample" /\ last.outcome = "ok"
    /\ cc = 2 /\ last.ch = 1 /\ last.n = 1
    /\ last.touched # {}
    /\ last.touched \subseteq SampleBytes(1, 1)

\* C26: when an invocation in which begin was never called while Acquired
\* has returned, the transport's end_write / end_read was called as many
\* times as its begin succeeded, whatever the end calls returned.
C26_CommittedOnce ==
    (last.op = "drop" /\ ~script.overlap) => script.ends = script.begins

\* C27: after begin returned Ok(n), frame_count() returns n until the next
\* begin or commit, for every actual frame count of the transport: positive,
\* zero or negative.
C27_FrameCountIsReturned ==
    (last.op = "frame_count" /\ last.outcome = "ok"
        /\ script.returned # NoReturn.returned)
        => last.ret = script.returned

\* C28: a begin whose request passed the range check and that the transport
\* rejected with a non-zero code returns Err of the Error the code maps to,
\* and leaves the cursor as it was.
C28_RejectedBeginKeepsCursor ==
    (last.op = "begin" /\ last.outcome # "panic" /\ script.code # 0)
        => /\ last.outcome = "err"
           /\ script.result = ErrorFrom(script.code)
           /\ cursor = last.before

C28_Witness ==
    /\ last.op = "begin" /\ script.code = 14 /\ script.result = "Underflow"
    /\ ~cursor.started /\ cursor.frame_count = 0

\* C29: every begin request of the example callbacks lies in the window of
\* the invocation, frame_count_min <= request <= frame_count_max, when the
\* transport grants between 1 and the requested count.
C29_ExampleRequestsInWindow ==
    last.op = "begin"
        => /\ last.before.frame_count_min <= last.n
           /\ last.n <= last.before.frame_count_max

\* C30: the slice the generic write callback hands to the user's callback
\* holds exactly as many frames (elements of type Frame) as the transport
\* granted.
C30_SliceHoldsGrantedFrames ==
    gen.called => gen.buffer_len = gen.granted

\* the section of the scenario holds byte b in every sample of its 64 frames
\* of 2 channels
EverySampleIs(b) ==
    /\ DOMAIN mem = 0..(64 * 2 - 1)
    /\ \A a \in DOMAIN mem : mem[a] = b

\* C8 as stated: on the S8 stream of 2 channels, window [0, 64], 64 frames
\* acquired, writing 0.0 to every sample leaves byte 0x80 in every sample
\* and writing -1.0 leaves byte 0x00.
C8_AsStated ==
    script.step = "written" =>
        EverySampleIs(IF script.value = Silence THEN 128 ELSE 0)

\* C8 amended: on the S8 stream of 2 channels, window [0, 64], 64 frames
\* acquired, writing 0.0 to every sample leaves byte 0x00 in every sample
\* and writing -1.0 leaves byte 0x80 (128).
C8_ScenarioBytes ==
    script.step = "written" =>
        EverySampleIs(IF script.value = Silence THEN 0 ELSE 128)

\* C8 witness: -1.0 has been written to all 128 samples of the section
C8_Witness ==
    /\ script.step = "written"
    /\ script.value = FullNegative
    /\ last.op = "set_sample" /\ last.ch = 1 /\ last.n = 63
    /\ transport.granted = 64
    /\ mem[127] = 128

=============================================================================
